---------------------------- MODULE Spec2Model ----------------------------
(***************************************************************************)
(* A model of the PDF editor: the range/rule parser of pdfUtils.ts, the    *)
(* byte-buffer operations of pdfUtils.ts over an abstract PDF buffer, and  *)
(* the state and handlers of App.tsx.                                      *)
(*                                                                         *)
(* JavaScript strings are sequences of one-character strings, so that      *)
(* split, trim, startsWith, parseInt and template literals are computed    *)
(* the way the code computes them.  A JavaScript number that may be NaN is *)
(* a record [nan, v].                                                      *)
(***************************************************************************)
EXTENDS Integers, Sequences, FiniteSets, TLC

VARIABLES
    \* ---- App.tsx: the state of the component (useState) ----
    documents,          \* the open documents: [id, arrayBuffer, pageCount, pages]
    activeDocId,        \* the id of the active document, NoDoc for null
    activePageIndex,    \* the page open in the page editor, NoPage for null
    mode,               \* "view", "text" or "crop"
    loading,            \* the loading flag (the overlay that covers the controls)
    selectedPages,      \* the selection set: keys `${docId}-${pageIndex}`
    currentAnnotations, \* the pending text annotations of the page editor
    cropBox,            \* the crop rectangle drawn in the page editor, NoBox for null
    pagePreview,        \* the preview image of the page editor, NoImage for null
    pageSize,           \* the recorded size of the preview
    \* ---- App.tsx: the asynchronous handlers in flight ----
    op,                 \* the handler that holds the loading flag, with what it captured
    pending,            \* the openPageEditor calls whose preview is still being rendered
    \* ---- what the user is shown and handed ----
    report,             \* the alert raised by the latest step, "none" if it raised none
    saved,              \* the download handed over by the latest step (saveAs), NoSave if none
    generation,         \* the number of byte buffers installed so far
    \* ---- the range/rule parser driven on its own ----
    input,          \* the rule text handed to parseMergeRules
    maxPage,        \* its maxPage argument
    rules,          \* the rules it returned
    parsePc,        \* "input" while the text is entered, "parsed" afterwards
    tokens,         \* the page numbers the text was written from (empty when typed freely)
    typed,          \* TRUE when the text is typed character by character
    \* ---- the codec functions and the move handler driven on their own ----
    codecRun        \* the buffer at hand, the latest call and what it returned;
                    \* the orders of the moves made; the handler started from
                    \* the keyboard

parseVars == <<input, maxPage, rules, parsePc, tokens, typed>>

appVars == <<documents, activeDocId, activePageIndex, mode, loading, selectedPages,
             currentAnnotations, cropBox, pagePreview, pageSize,
             op, pending, report, saved, generation>>

vars == <<appVars, parseVars, codecRun>>

-----------------------------------------------------------------------------
(* Bounds of the model.                                                    *)

MaxDocs == 2        \* most documents open at once
MaxPages == 2       \* pages of the longest uploaded file
MaxGenerations == 2 \* most byte buffers installed in one run
MaxPending == 1     \* most preview renders in flight at once
MaxAnnotations == 1 \* most text annotations pending at once
MaxPage == 2        \* largest maxPage argument of the parser runs
MaxTokens == 2      \* longest list of well-formed tokens written out
MaxLen == 4         \* longest freely typed rule text

-----------------------------------------------------------------------------
(* JavaScript strings and numbers.                                         *)

DigitChars == <<"0", "1", "2", "3", "4", "5", "6", "7", "8", "9">>

IsDigit(c) == \E i \in 1..10 : DigitChars[i] = c

DigitVal(c) == (CHOOSE i \in 1..10 : DigitChars[i] = c) - 1

IsSpace(c) == c = " "

NaN == [nan |-> TRUE, v |-> 0]

Num(n) == [nan |-> FALSE, v |-> n]

\* n - 1 on a JavaScript number: NaN - 1 is NaN
JsMinusOne(n) == IF n.nan THEN NaN ELSE Num(n.v - 1)

\* String(n) for an integer n >= 0
RECURSIVE ToDecimal(_)
ToDecimal(n) ==
    IF n < 10 THEN <<DigitChars[n + 1]>>
    ELSE ToDecimal(n \div 10) \o <<DigitChars[(n % 10) + 1]>>

\* the value of a string of decimal digits
RECURSIVE DecimalValue(_)
DecimalValue(s) ==
    IF s = <<>> THEN 0
    ELSE 10 * DecimalValue(SubSeq(s, 1, Len(s) - 1)) + DigitVal(s[Len(s)])

\* s.includes(c)
Includes(s, c) == \E i \in 1..Len(s) : s[i] = c

\* s.startsWith(p)
StartsWith(s, p) == Len(p) <= Len(s) /\ SubSeq(s, 1, Len(p)) = p

\* s.trim()
Trim(s) ==
    LET keep == {i \in 1..Len(s) : ~IsSpace(s[i])}
    IN  IF keep = {} THEN <<>>
        ELSE SubSeq(s, CHOOSE i \in keep : \A j \in keep : i <= j,
                       CHOOSE i \in keep : \A j \in keep : j <= i)

\* s.split(sep): the pieces between the separators, in order (never empty)
Split(s, sep) ==
    LET at == {i \in 1..Len(s) : s[i] = sep}
        n == Cardinality(at) + 1
        pos(k) == CHOOSE i \in at : Cardinality({j \in at : j < i}) = k - 1
        from(k) == IF k = 1 THEN 1 ELSE pos(k - 1) + 1
        to(k) == IF k = n THEN Len(s) ELSE pos(k) - 1
    IN  [k \in 1..n |-> SubSeq(s, from(k), to(k))]

\* parseInt(s, 10): leading white space and one sign are skipped, the longest
\* prefix of digits is read, and NaN results when there is none
ParseInt(s) ==
    LET lead == {i \in 1..Len(s) : \A j \in 1..i : IsSpace(s[j])}
        t == SubSeq(s, Cardinality(lead) + 1, Len(s))
        signed == t # <<>> /\ t[1] \in {"-", "+"}
        u == IF signed THEN SubSeq(t, 2, Len(t)) ELSE t
        run == {i \in 1..Len(u) : \A j \in 1..i : IsDigit(u[j])}
        val == DecimalValue(SubSeq(u, 1, Cardinality(run)))
    IN  IF run = {} THEN NaN
        ELSE Num(IF signed /\ t[1] = "-" THEN 0 - val ELSE val)

-----------------------------------------------------------------------------
(* pdfUtils.ts: parseMergeRules                                            *)

\* the mutant of RangeRule: the upper bound compared with <= instead of <
RangeRuleOffByOne(start, end, max) ==
    IF ~start.nan /\ ~end.nan /\ start.v >= 0 /\ end.v <= max /\ start.v <= end.v
    THEN <<[start |-> start.v, end |-> end.v]>>
    ELSE <<>>

\* the test of line 217 and the push of line 218
RangeRule(start, end, max) ==
    IF ~start.nan /\ ~end.nan /\ start.v >= 0 /\ end.v < max /\ start.v <= end.v
    THEN <<[start |-> start.v, end |-> end.v]>>
    ELSE <<>>

\* the test of line 222 and the push of line 223
SingleRule(pageNum, max) ==
    IF ~pageNum.nan /\ pageNum.v >= 0 /\ pageNum.v < max
    THEN <<[start |-> pageNum.v, end |-> pageNum.v]>>
    ELSE <<>>

\* the body of the loop over the parts: the rules one part pushes
PartRules(part, max) ==
    IF Includes(part, "-")
    THEN LET sides == Split(part, "-")
             startStr == Trim(sides[1])
             endStr == Trim(sides[2])
         IN  RangeRule(JsMinusOne(ParseInt(startStr)),
                       JsMinusOne(ParseInt(endStr)), max)
    ELSE SingleRule(JsMinusOne(ParseInt(part)), max)

\* input.split(',').map(s => s.trim()).filter(s => s)
RuleParts(text) ==
    LET pieces == Split(text, ",")
        trimmed == [k \in 1..Len(pieces) |-> Trim(pieces[k])]
    IN  SelectSeq(trimmed, LAMBDA s : s # <<>>)

\* the mutant of PushRules: each part's rules put in front of the list
RECURSIVE PushRulesInFront(_, _, _)
PushRulesInFront(parts, k, max) ==
    IF k > Len(parts) THEN <<>>
    ELSE PushRulesInFront(parts, k + 1, max) \o PartRules(parts[k], max)

\* the loop of lines 211-226: the rules of the parts, in the order of the parts
RECURSIVE PushRules(_, _, _)
PushRules(parts, k, max) ==
    IF k > Len(parts) THEN <<>>
    ELSE PartRules(parts[k], max) \o PushRules(parts, k + 1, max)

\* lines 207-229
parseMergeRules(text, max) == PushRules(RuleParts(text), 1, max)

-----------------------------------------------------------------------------
(* Exact fractions [n, d] for the coordinates the code computes in floating *)
(* point; d = 0 stands for a non-finite result (a division by zero).       *)

RECURSIVE Gcd(_, _)
Gcd(a, b) == IF b = 0 THEN a ELSE Gcd(b, a % b)

Abs(a) == IF a < 0 THEN 0 - a ELSE a

Frac(n, d) ==
    IF d = 0 THEN [n |-> 0, d |-> 0]
    ELSE LET g == Gcd(Abs(n), Abs(d))
             sgn == IF d < 0 THEN 0 - 1 ELSE 1
         IN  [n |-> sgn * (n \div g), d |-> sgn * (d \div g)]

Whole(a) == [n |-> a, d |-> 1]

FMul(x, y) == Frac(x.n * y.n, x.d * y.d)

FDiv(x, y) == Frac(x.n * y.d, x.d * y.n)

FAdd(x, y) == Frac(x.n * y.d + y.n * x.d, x.d * y.d)

FSub(x, y) == Frac(x.n * y.d - y.n * x.d, x.d * y.d)

\* x <= y for fractions with positive denominators
FLeq(x, y) == x.n * y.d <= y.n * x.d

-----------------------------------------------------------------------------
(* The PDF codec (pdf-lib) and the page rasterizer (pdf.js), as far as the  *)
(* code uses them.  A byte buffer is the sequence of its pages; a page is   *)
(* [src, rot, crop, text]: the page of the uploaded file it comes from, its *)
(* stored rotation, its crop box (NoCrop when none is set) and the texts    *)
(* drawn on it.                                                            *)

\* the media box of every page of the uploaded files, in points
PageWidth == 40
PageHeight == 60

NoCrop == [set |-> FALSE]

\* page.getSize(): the size of the media box
GetSize(page) == [width |-> Whole(PageWidth), height |-> Whole(PageHeight)]

\* the bytes of an uploaded file of n pages
FileBuffer(name, n) ==
    [k \in 1..n |-> [src |-> <<name, k>>, rot |-> 0, crop |-> NoCrop, text |-> <<>>]]

\* an index that names a page of the sequence: pageIndex >= 0 && pageIndex < pages.length
InRange(idx, pages) == ~idx.nan /\ idx.v >= 0 /\ idx.v < Len(pages)

\* the mutant of RotateOne: the rotation set to degrees instead of added to
RotateOneSet(pages, idx, degrees) ==
    IF InRange(idx, pages)
    THEN [pages EXCEPT ![idx.v + 1].rot = degrees]
    ELSE pages

\* pdfUtils.ts rotatePages, lines 76-79: one turn of the forEach
RotateOne(pages, idx, degrees) ==
    IF InRange(idx, pages)
    THEN [pages EXCEPT ![idx.v + 1].rot = @ + degrees]
    ELSE pages

\* pdfUtils.ts rotatePages: the forEach over pageIndices, then save
RECURSIVE rotatePages(_, _, _)
rotatePages(buf, pageIndices, degrees) ==
    IF pageIndices = <<>> THEN buf
    ELSE rotatePages(RotateOne(buf, Head(pageIndices), degrees),
                     Tail(pageIndices), degrees)

\* copyPages of pdf-lib throws when an index names no page of the source
CanCopy(buf, indices) == \A k \in 1..Len(indices) : InRange(indices[k], buf)

\* the page pdf-lib adds to a document that has none
BlankPage == [src |-> <<"blank", 0>>, rot |-> 0, crop |-> NoCrop, text |-> <<>>]

\* newPdf.save() of pdf-lib: a document without pages is given one blank page
\* (addDefaultPage is on unless the caller turns it off)
Save(pages) == IF pages = <<>> THEN <<BlankPage>> ELSE pages

\* the mutant of CopiedPages: every copy inserted in front of the pages added before
CopiedPagesInFront(buf, indices) ==
    [k \in 1..Len(indices) |-> buf[indices[Len(indices) + 1 - k].v + 1]]

\* newPdf.copyPages(sourcePdf, indices) and addPage of each copy, in order
CopiedPages(buf, indices) == [k \in 1..Len(indices) |-> buf[indices[k].v + 1]]

\* the mutant of extractPages: the pages copied in ascending order of index
extractPagesSorted(buf, indices) ==
    LET picked == {indices[k].v : k \in 1..Len(indices)}
        kept == SelectSeq([i \in 1..Len(buf) |-> i - 1], LAMBDA i : i \in picked)
    IN  Save([k \in 1..Len(kept) |-> buf[kept[k] + 1]])

\* pdfUtils.ts extractPages: a new document of the copied pages, in the given order
extractPages(buf, indices) == Save(CopiedPages(buf, indices))

\* the mutant of reorderPages: the new order read as the place each page goes to
reorderPagesInverse(buf, newOrder) ==
    Save([k \in 1..Len(newOrder) |->
             buf[CHOOSE j \in 1..Len(newOrder) :
                     /\ newOrder[j].v + 1 = k
                     /\ \A i \in 1..(j - 1) : newOrder[i].v + 1 # k]])

\* pdfUtils.ts reorderPages: the same copy, with the new order as the index list
reorderPages(buf, newOrder) == Save(CopiedPages(buf, newOrder))

\* the mutant of RangeIndices: the loop stops before the index end
RangeIndicesHalfOpen(range) ==
    [k \in 1..(range.end - range.start) |-> Num(range.start + k - 1)]

\* pdfUtils.ts splitPDF, lines 124-128: the indices start..end of one range
RangeIndices(range) == [k \in 1..(range.end - range.start + 1) |-> Num(range.start + k - 1)]

\* the mutant of splitPDF: the page at end left out of every range
splitPDFExclusive(buf, ranges) ==
    [r \in 1..Len(ranges) |->
        Save(CopiedPages(buf, SubSeq(RangeIndices(ranges[r]), 1,
                                     ranges[r].end - ranges[r].start)))]

\* pdfUtils.ts splitPDF: one new document per range, of the pages start..end
splitPDF(buf, ranges) ==
    [r \in 1..Len(ranges) |-> Save(CopiedPages(buf, RangeIndices(ranges[r])))]

\* pdfUtils.ts mergePDFs, lines 144-149: every page of every buffer, in order
RECURSIVE MergedPages(_)
MergedPages(buffers) ==
    IF buffers = <<>> THEN <<>>
    ELSE Head(buffers) \o MergedPages(Tail(buffers))

\* the mutant of mergePDFs: every buffer put in front of the pages merged so far
RECURSIVE MergedPagesInFront(_)
MergedPagesInFront(buffers) ==
    IF buffers = <<>> THEN <<>>
    ELSE MergedPagesInFront(Tail(buffers)) \o Head(buffers)

mergePDFsInFront(buffers) == Save(MergedPagesInFront(buffers))

\* pdfUtils.ts mergePDFs
mergePDFs(buffers) == Save(MergedPages(buffers))

\* the mutant of CropRect: the rectangle measured from the bottom edge, as it
\* is drawn on the preview from the top edge
CropRectNoFlip(page, box, pageWidth, pageHeight) ==
    LET size == GetSize(page)
        scaleX == FDiv(size.width, pageWidth)
        scaleY == FDiv(size.height, pageHeight)
    IN  [set |-> TRUE,
         x |-> FMul(Whole(box.x), scaleX),
         y |-> FMul(Whole(box.y), scaleY),
         w |-> FMul(Whole(box.width), scaleX),
         h |-> FMul(Whole(box.height), scaleY)]

\* pdfUtils.ts cropPage, lines 191-202: the crop box in PDF coordinates.  box is
\* in preview coordinates (whole numbers); pageWidth and pageHeight are fractions
CropRect(page, box, pageWidth, pageHeight) ==
    LET size == GetSize(page)
        scaleX == FDiv(size.width, pageWidth)
        scaleY == FDiv(size.height, pageHeight)
    IN  [set |-> TRUE,
         x |-> FMul(Whole(box.x), scaleX),
         y |-> FSub(size.height, FMul(Whole(box.y + box.height), scaleY)),
         w |-> FMul(Whole(box.width), scaleX),
         h |-> FMul(Whole(box.height), scaleY)]

\* pdfUtils.ts cropPage (pageIndex names a page of the buffer)
cropPage(buf, pageIndex, box, pageWidth, pageHeight) ==
    [buf EXCEPT ![pageIndex + 1].crop = CropRect(@, box, pageWidth, pageHeight)]

\* pdfUtils.ts addTextToPage, lines 103-109: one drawText
DrawnText(page, annotation) ==
    [id |-> annotation.id,
     x |-> annotation.x,
     y |-> GetSize(page).height.n - annotation.y - annotation.fontSize,
     size |-> annotation.fontSize]

\* pdfUtils.ts addTextToPage: every annotation drawn, in order
addTextToPage(buf, pageIndex, annotations) ==
    [buf EXCEPT ![pageIndex + 1].text =
        @ \o [k \in 1..Len(annotations) |-> DrawnText(buf[pageIndex + 1], annotations[k])]]

\* the scales of the thumbnails (0.3) and of the editor preview (1.5), in tenths
ThumbnailScale == 3
PreviewScale == 15

\* pdf.js page.getViewport({scale}): the crop box (the media box when none is
\* set) at the scale, its sides swapped when the page is turned by 90 or 270
Viewport(page, scale) ==
    LET w == IF page.crop.set THEN page.crop.w ELSE Whole(PageWidth)
        h == IF page.crop.set THEN page.crop.h ELSE Whole(PageHeight)
        sw == FMul(w, Frac(scale, 10))
        sh == FMul(h, Frac(scale, 10))
        turned == (page.rot % 180) # 0
    IN  [width |-> IF turned THEN sh ELSE sw, height |-> IF turned THEN sw ELSE sh]

\* pdfUtils.ts renderPageToCanvas: the image of one page at a scale
renderPageToCanvas(buf, pageNum, scale) == [of |-> buf[pageNum], scale |-> scale]

\* pdfUtils.ts generateThumbnails: one image per page of the buffer
generateThumbnails(buf, scale) ==
    [i \in 1..Len(buf) |-> renderPageToCanvas(buf, i, scale)]

\* pdfUtils.ts getPageCount
getPageCount(buf) == Len(buf)

\* an image that is not there: undefined or null
NoImage == [set |-> FALSE]

\* pdfUtils.ts initializePages: the pages have no thumbnail yet
initializePages(pageCount) ==
    [i \in 1..pageCount |->
        [pageIndex |-> i - 1, rotation |-> 0, selected |-> FALSE,
         textAnnotations |-> <<>>, thumbnail |-> NoImage]]

-----------------------------------------------------------------------------
(* App.tsx: the state of the component.                                    *)

NoDoc == <<>>
NoPage == -1
NoBox == [set |-> FALSE]
NoSave == [kind |-> "none"]
Idle == [kind |-> "none", pc |-> "idle"]

\* the parser is not driven on its own while the application runs
ParseIdle ==
    /\ input = <<>>
    /\ maxPage = 0
    /\ rules = <<>>
    /\ parsePc = "idle"
    /\ tokens = <<>>
    /\ typed = FALSE

\* lines 25-43: the initial values of the useState hooks
AppInit ==
    /\ documents = <<>>
    /\ activeDocId = NoDoc
    /\ activePageIndex = NoPage
    /\ mode = "view"
    /\ loading = FALSE
    /\ selectedPages = {}
    /\ currentAnnotations = <<>>
    /\ cropBox = NoBox
    /\ pagePreview = NoImage
    /\ pageSize = [width |-> Whole(0), height |-> Whole(0)]
    /\ op = Idle
    /\ pending = {}
    /\ report = "none"
    /\ saved = NoSave
    /\ generation = 0

\* no codec function is driven on its own while the application runs
CodecIdle == [pc |-> "idle"]

Init == AppInit /\ ParseIdle /\ codecRun = CodecIdle

\* line 48: documents.find(d => d.id === activeDocId)
HasActiveDoc == \E k \in 1..Len(documents) : documents[k].id = activeDocId

ActiveDoc ==
    documents[CHOOSE k \in 1..Len(documents) :
                  /\ documents[k].id = activeDocId
                  /\ \A j \in 1..(k - 1) : documents[j].id # activeDocId]

\* The handlers that neither read nor write the selection (the page editor,
\* split, merge and the downloads) are started with nothing selected: the
\* user clears the selection before (line 123) and makes it again after.
NothingSelected == selectedPages = {}

\* lines 610-620: the loading overlay covers every control while loading is
\* set; the user lets the preview of the page editor appear (or fail) before
\* the next click
CanClick == ~loading /\ pending = {}

\* line 678: the page editor is shown instead of the document and page grid
EditorView == documents # <<>> /\ activePageIndex # NoPage /\ HasActiveDoc

\* the mutant of MainView: the document and page grid stay on screen beside the
\* page editor
MainViewBesideEditor == documents # <<>>

MainView == documents # <<>> /\ ~EditorView

\* the uploaded image of a page, or NoImage for undefined
ImageAt(images, i) == IF i <= Len(images) THEN images[i] ELSE NoImage

RenderedImage(buf, pageNum, scale) ==
    [set |-> TRUE, of |-> renderPageToCanvas(buf, pageNum, scale).of, scale |-> scale]

\* lines 67-71, 269-272, 307-310: initializePages, then each page given its thumbnail
PagesWithThumbnails(pageCount, thumbnails) ==
    LET pages == initializePages(pageCount)
    IN  [i \in 1..pageCount |-> [pages[i] EXCEPT !.thumbnail = ImageAt(thumbnails, i)]]

Thumbnails(buf) == [i \in 1..Len(buf) |-> RenderedImage(buf, i, ThumbnailScale)]

-----------------------------------------------------------------------------
(* App.tsx: the selection set.                                             *)

\* crypto.randomUUID(): hexadecimal groups joined by hyphens, the third one
\* starting with the version digit 4 (the groups are shortened to one digit)
Uuid(first, second) == <<first, "-", second, "-", "4", "-", "8", "-", first>>

\* the ids randomUUID may return, one per document that can be open: the second
\* group of the first reads as NaN under parseInt, that of the others as a number
UuidFirst == <<"a", "c", "d", "e", "f">>
UuidSecond == <<"b", "1", "0", "2", "f">>
UuidPool == {Uuid(UuidFirst[k], UuidSecond[k]) : k \in 1..MaxDocs}

\* line 100: `${docId}-${pageIndex}`
SelectionKey(docId, pageIndex) == docId \o <<"-">> \o ToDecimal(pageIndex)

\* the mutant of KeyPageIndex: the page index read after the last hyphen
KeyPageIndexLast(key) ==
    LET pieces == Split(key, "-") IN ParseInt(pieces[Len(pieces)])

\* line 137: parseInt(key.split('-')[1], 10)
KeyPageIndex(key) == ParseInt(Split(key, "-")[2])

\* Array.from(set): the elements of a set in a sequence.  The set keeps insertion
\* order; every use below counts, tests membership or sorts, so any order serves.
RECURSIVE ArrayFrom(_)
ArrayFrom(set) ==
    IF set = {} THEN <<>>
    ELSE LET x == CHOOSE y \in set : TRUE
         IN  <<x>> \o ArrayFrom(set \ {x})

\* lines 135-137, 250-252: the page indices selected in a document
SelectedIndices(selection, docId) ==
    LET keys == SelectSeq(ArrayFrom(selection), LAMBDA key : StartsWith(key, docId))
    IN  [k \in 1..Len(keys) |-> KeyPageIndex(keys[k])]

\* pageIndices.includes(i)
IndexListed(indices, i) == \E k \in 1..Len(indices) : ~indices[k].nan /\ indices[k].v = i

\* lines 99-110
TogglePageSelection ==
    /\ CanClick
    /\ MainView
    /\ HasActiveDoc
    /\ \E i \in 0..(Len(ActiveDoc.pages) - 1) :
          LET key == SelectionKey(ActiveDoc.id, i)
          IN  selectedPages' = IF key \in selectedPages
                               THEN selectedPages \ {key}
                               ELSE selectedPages \cup {key}
    /\ UNCHANGED <<documents, activeDocId, activePageIndex, mode, loading,
                   currentAnnotations, cropBox, pagePreview, pageSize, op, pending, generation, parseVars, codecRun>>
    /\ report' = "none"
    /\ saved' = NoSave

\* lines 113-120
SelectAllPages ==
    /\ CanClick
    /\ MainView
    /\ HasActiveDoc
    /\ selectedPages' =
           {SelectionKey(ActiveDoc.id, i) : i \in 0..(Len(ActiveDoc.pages) - 1)}
    /\ UNCHANGED <<documents, activeDocId, activePageIndex, mode, loading,
                   currentAnnotations, cropBox, pagePreview, pageSize, op, pending, generation, parseVars, codecRun>>
    /\ report' = "none"
    /\ saved' = NoSave

\* lines 123-125
ClearSelection ==
    /\ CanClick
    /\ MainView
    /\ HasActiveDoc
    /\ selectedPages' = {}
    /\ UNCHANGED <<documents, activeDocId, activePageIndex, mode, loading,
                   currentAnnotations, cropBox, pagePreview, pageSize, op, pending, generation, parseVars, codecRun>>
    /\ report' = "none"
    /\ saved' = NoSave

-----------------------------------------------------------------------------
(* App.tsx: upload, document switch and document removal.                  *)

\* the files the user can pick: name, MIME type is PDF, pages
Files ==
    { [name |-> "a", pdf |-> TRUE, pages |-> MaxPages],
      [name |-> "b", pdf |-> TRUE, pages |-> 1],
      [name |-> "c", pdf |-> FALSE, pages |-> 1] }

\* one file, or a file followed by the one-page file, as the file input hands
\* them over
FileLists ==
    {<<f>> : f \in Files} \cup
    {pair \in Files \X Files : pair[1] # pair[2] /\ pair[2].name = "b"}

PdfFiles(files) == SelectSeq(files, LAMBDA f : f.pdf)

\* the file is the origin of an open document (a file is not picked again
\* while it is open)
IsOpen(file) ==
    \E k \in 1..Len(documents) : documents[k].arrayBuffer[1].src[1] = file.name

\* lines 51-56: the input's onChange with a non-empty file list. Files are
\* added from the document view: with the page editor open an upload only
\* appends documents (line 84 leaves the active document as it is).
HandleFileUpload ==
    /\ CanClick
    /\ ~EditorView
    /\ \E files \in FileLists :
          /\ Len(documents) + Len(PdfFiles(files)) <= MaxDocs
          /\ \A k \in 1..Len(files) : ~IsOpen(files[k])
          /\ op' = [kind |-> "upload", pc |-> "load", files |-> files,
                    activeDocId |-> activeDocId]
    /\ loading' = TRUE
    /\ report' = "none"
    /\ saved' = NoSave
    /\ UNCHANGED <<documents, activeDocId, activePageIndex, mode, selectedPages,
                   currentAnnotations, cropBox, pagePreview, pageSize,
                   pending, generation, parseVars, codecRun>>

\* lines 64-79: the document made of one loaded file
NewDocument(file, id) ==
    LET arrayBuffer == FileBuffer(file.name, file.pages)
        pageCount == getPageCount(arrayBuffer)
    IN  [id |-> id,
         arrayBuffer |-> arrayBuffer,
         pageCount |-> pageCount,
         pages |-> PagesWithThumbnails(pageCount, Thumbnails(arrayBuffer))]

\* the mutant of UploadResolves: the active document is never set by an upload
UploadResolvesKeepsActive ==
    /\ op.kind = "upload"
    /\ LET pdfs == PdfFiles(op.files)
           free == UuidPool \ {documents[k].id : k \in 1..Len(documents)}
       IN  \E ids \in [1..Len(pdfs) -> free] :
                 /\ \A i, j \in 1..Len(pdfs) : i # j => ids[i] # ids[j]
                 /\ LET newDocs == [k \in 1..Len(pdfs) |-> NewDocument(pdfs[k], ids[k])]
                    IN  /\ documents' = documents \o newDocs
                        /\ activeDocId' = activeDocId
    /\ loading' = FALSE
    /\ op' = Idle
    /\ UNCHANGED <<activePageIndex, mode, selectedPages, currentAnnotations,
                   cropBox, pagePreview, pageSize, pending, generation,
                   parseVars, codecRun>>
    /\ report' = "none"
    /\ saved' = NoSave

\* lines 59-85 and 89-95: every PDF file loaded, the documents appended
UploadResolves ==
    /\ op.kind = "upload"
    /\ LET pdfs == PdfFiles(op.files)
           free == UuidPool \ {documents[k].id : k \in 1..Len(documents)}
       IN  \E ids \in [1..Len(pdfs) -> free] :
                 /\ \A i, j \in 1..Len(pdfs) : i # j => ids[i] # ids[j]
                 /\ LET newDocs == [k \in 1..Len(pdfs) |-> NewDocument(pdfs[k], ids[k])]
                    IN  /\ documents' = documents \o newDocs
                        /\ activeDocId' = IF Len(newDocs) > 0 /\ op.activeDocId = NoDoc
                                          THEN newDocs[1].id
                                          ELSE activeDocId
    /\ loading' = FALSE
    /\ op' = Idle
    /\ UNCHANGED <<activePageIndex, mode, selectedPages, currentAnnotations,
                   cropBox, pagePreview, pageSize, pending, generation,
                   parseVars, codecRun>>
    /\ report' = "none"
    /\ saved' = NoSave

\* lines 86-95: getPageCount or generateThumbnails throws on the k-th of the
\* PDF files; the documents made of the files before it are dropped with newDocs
UploadRejectsAt(k) ==
    /\ op.kind = "upload"
    /\ k \in 1..Len(PdfFiles(op.files))
    /\ report' = "upload failed"
    /\ loading' = FALSE
    /\ op' = Idle
    /\ UNCHANGED <<documents, activeDocId, activePageIndex, mode, selectedPages,
                   currentAnnotations, cropBox, pagePreview, pageSize,
                   pending, generation, parseVars, codecRun>>
    /\ saved' = NoSave

\* lines 59-62: any of the PDF files may be the one that does not load
UploadRejects ==
    /\ op.kind = "upload"
    /\ \E k \in 1..Len(PdfFiles(op.files)) : UploadRejectsAt(k)

\* line 869: a click on a document of the list
SetActiveDocId ==
    /\ CanClick
    /\ MainView
    /\ \E k \in 1..Len(documents) :
          /\ documents[k].id # activeDocId
          /\ activeDocId' = documents[k].id
    /\ UNCHANGED <<documents, activePageIndex, mode, loading, selectedPages,
                   currentAnnotations, cropBox, pagePreview, pageSize, op, pending, generation, parseVars, codecRun>>
    /\ report' = "none"
    /\ saved' = NoSave

\* the mutant of DeleteDocument: the keys of the removed document stay selected
DeleteDocumentKeepsSelection ==
    /\ CanClick
    /\ MainView
    /\ \E k \in 1..Len(documents) :
          LET docId == documents[k].id
              others == SelectSeq(documents, LAMBDA d : d.id # docId)
          IN  /\ documents' = others
              /\ activeDocId' = IF activeDocId = docId
                                THEN (IF others # <<>> THEN others[1].id ELSE NoDoc)
                                ELSE activeDocId
              /\ selectedPages' = selectedPages
    /\ UNCHANGED <<activePageIndex, mode, loading, currentAnnotations,
                   cropBox, pagePreview, pageSize, op, pending, generation, parseVars, codecRun>>
    /\ report' = "none"
    /\ saved' = NoSave

\* lines 531-545
DeleteDocument ==
    /\ CanClick
    /\ MainView
    /\ \E k \in 1..Len(documents) :
          LET docId == documents[k].id
              others == SelectSeq(documents, LAMBDA d : d.id # docId)
          IN  /\ documents' = others
              /\ activeDocId' = IF activeDocId = docId
                                THEN (IF others # <<>> THEN others[1].id ELSE NoDoc)
                                ELSE activeDocId
              /\ selectedPages' = {key \in selectedPages : ~StartsWith(key, docId)}
    /\ UNCHANGED <<activePageIndex, mode, loading, currentAnnotations,
                   cropBox, pagePreview, pageSize, op, pending, generation, parseVars, codecRun>>
    /\ report' = "none"
    /\ saved' = NoSave

-----------------------------------------------------------------------------
(* App.tsx: the handlers that start a codec call.  Each sets the loading   *)
(* flag, captures activeDoc and its arguments, and suspends at its first   *)
(* await; the steps after the awaits follow below.                         *)

editorVars == <<activePageIndex, mode, currentAnnotations, cropBox, pagePreview, pageSize>>

MutationKinds == {"rotate", "delete", "move", "crop", "text"}

\* lines 938 and 946: the two rotate buttons
RotateDegrees == {90, 0 - 90}

\* [0, 1, ..., n-1] as JavaScript numbers: pages.map((_, i) => i)
IndexList(n) == [i \in 1..n |-> Num(i - 1)]

\* lines 128-139
HandleRotate ==
    /\ CanClick
    /\ MainView
    /\ HasActiveDoc
    /\ selectedPages # {}
    /\ generation < MaxGenerations
    /\ \E degrees \in RotateDegrees :
          op' = [kind |-> "rotate", pc |-> "codec", doc |-> ActiveDoc,
                 pageIndices |-> SelectedIndices(selectedPages, ActiveDoc.id),
                 degrees |-> degrees, newBuffer |-> <<>>]
    /\ loading' = TRUE
    /\ report' = "none"
    /\ saved' = NoSave
    /\ UNCHANGED <<documents, activeDocId, selectedPages, editorVars,
                   pending, generation, parseVars, codecRun>>

\* the mutant of DeletesEveryPage: no request is refused
DeletesEveryPageNever(pageIndicesToDelete, doc) == FALSE

\* line 254: pageIndicesToDelete.length === activeDoc.pageCount
DeletesEveryPage(pageIndicesToDelete, doc) == Len(pageIndicesToDelete) = doc.pageCount

\* lines 263-265: the indices of the pages that stay
RemainingIndices(doc, pageIndicesToDelete) ==
    SelectSeq(IndexList(Len(doc.pages)),
              LAMBDA i : ~IndexListed(pageIndicesToDelete, i.v))

\* lines 247-267
HandleDeletePages ==
    /\ CanClick
    /\ MainView
    /\ HasActiveDoc
    /\ selectedPages # {}
    /\ LET pageIndicesToDelete == SelectedIndices(selectedPages, ActiveDoc.id)
       IN  IF DeletesEveryPage(pageIndicesToDelete, ActiveDoc)
           THEN /\ report' = "cannot delete all pages"
                /\ UNCHANGED <<loading, op>>
           ELSE /\ generation < MaxGenerations
                /\ op' = [kind |-> "delete", pc |-> "codec", doc |-> ActiveDoc,
                          indices |-> RemainingIndices(ActiveDoc, pageIndicesToDelete),
                          newBuffer |-> <<>>]
                /\ loading' = TRUE
                /\ report' = "none"
    /\ saved' = NoSave
    /\ UNCHANGED <<documents, activeDocId, selectedPages, editorVars,
                   pending, generation, parseVars, codecRun>>

\* the mutant of MovedOrder: the two indices exchanged
MovedOrderSwapped(n, fromIndex, toIndex) ==
    [i \in 1..n |-> IF i = fromIndex + 1 THEN Num(toIndex)
                    ELSE IF i = toIndex + 1 THEN Num(fromIndex)
                    ELSE Num(i - 1)]

\* lines 301-303: the index fromIndex spliced out and spliced in at toIndex
MovedOrder(n, fromIndex, toIndex) ==
    LET newOrder == IndexList(n)
        removed == newOrder[fromIndex + 1]
        rest == SubSeq(newOrder, 1, fromIndex) \o SubSeq(newOrder, fromIndex + 2, n)
    IN  SubSeq(rest, 1, toIndex) \o <<removed>> \o SubSeq(rest, toIndex + 1, n - 1)

\* lines 1055-1082: a page is moved one place to the front or to the back
MoveTargets(fromIndex, n) == {fromIndex - 1, fromIndex + 1} \cap (0..(n - 1))

\* lines 294-305: handleMovePage(fromIndex, toIndex)
HandleMovePageOf(fromIndex, toIndex) ==
    /\ CanClick
    /\ MainView
    /\ HasActiveDoc
    /\ generation < MaxGenerations
    /\ fromIndex # toIndex
    /\ op' = [kind |-> "move", pc |-> "codec", doc |-> ActiveDoc,
              indices |-> MovedOrder(Len(ActiveDoc.pages), fromIndex, toIndex),
              newBuffer |-> <<>>]
    /\ loading' = TRUE
    /\ report' = "none"
    /\ saved' = NoSave
    /\ UNCHANGED <<documents, activeDocId, selectedPages, editorVars,
                   pending, generation, parseVars, codecRun>>

\* lines 1055-1082: the two move buttons of a page
HandleMovePage ==
    /\ HasActiveDoc
    /\ \E fromIndex \in 0..(Len(ActiveDoc.pages) - 1) :
          \E toIndex \in MoveTargets(fromIndex, Len(ActiveDoc.pages)) :
             HandleMovePageOf(fromIndex, toIndex)

\* lines 973-978: the texts the rule input holds when the split button is
\* clicked (mergeRule is written by the input's onChange alone and read by
\* handleSplit alone): empty, "x", "2,1-2"
RuleTexts ==
    { <<>>, <<"x">>, <<"2", ",", "1", "-", "2">> }

\* lines 170-172: the rules of the text, or one rule per page when it is blank
SplitRules(text, doc) ==
    IF Trim(text) # <<>>
    THEN parseMergeRules(text, doc.pageCount)
    ELSE [i \in 1..Len(doc.pages) |-> [start |-> i - 1, end |-> i - 1]]

\* the mutant of NoUsableRules: an empty rule list is passed on to splitPDF
NoUsableRulesIgnored(splitRules) == FALSE

\* line 174: rules.length === 0
NoUsableRules(splitRules) == Len(splitRules) = 0

\* lines 163-179 and 192-194, with mergeRule holding the text
HandleSplitOf(mergeRule) ==
    /\ CanClick
    /\ NothingSelected
    /\ MainView
    /\ HasActiveDoc
    /\ LET splitRules == SplitRules(mergeRule, ActiveDoc)
       IN  IF NoUsableRules(splitRules)
           THEN /\ report' = "enter valid split rules"
                /\ UNCHANGED <<loading, op>>
           ELSE /\ op' = [kind |-> "split", pc |-> "codec", doc |-> ActiveDoc,
                          rules |-> splitRules, out |-> <<>>]
                /\ loading' = TRUE
                /\ report' = "none"
    /\ saved' = NoSave
    /\ UNCHANGED <<documents, activeDocId, selectedPages, editorVars,
                   pending, generation, parseVars, codecRun>>

HandleSplit == \E mergeRule \in RuleTexts : HandleSplitOf(mergeRule)

\* lines 198-209 (the button is disabled with fewer than two documents, line 894)
HandleMergeAll ==
    /\ CanClick
    /\ NothingSelected
    /\ MainView
    /\ Len(documents) >= 2
    /\ op' = [kind |-> "merge", pc |-> "codec",
              buffers |-> [k \in 1..Len(documents) |-> documents[k].arrayBuffer]]
    /\ loading' = TRUE
    /\ report' = "none"
    /\ saved' = NoSave
    /\ UNCHANGED <<documents, activeDocId, selectedPages, editorVars,
                   pending, generation, parseVars, codecRun>>

\* .sort((a, b) => a - b): ascending; with a NaN among them the comparator
\* answers NaN for every pair it is in and the order is left as it was
RECURSIVE SortAscending(_)
SortAscending(indices) ==
    IF indices = <<>> \/ \E k \in 1..Len(indices) : indices[k].nan THEN indices
    ELSE LET m == CHOOSE k \in 1..Len(indices) :
                      /\ \A j \in 1..Len(indices) : indices[k].v <= indices[j].v
                      /\ \A j \in 1..(k - 1) : indices[j].v # indices[k].v
         IN  <<indices[m]>> \o
             SortAscending(SubSeq(indices, 1, m - 1) \o SubSeq(indices, m + 1, Len(indices)))

\* lines 222-234
HandleExtract ==
    /\ CanClick
    /\ MainView
    /\ HasActiveDoc
    /\ selectedPages # {}
    /\ op' = [kind |-> "extract", pc |-> "codec", doc |-> ActiveDoc,
              indices |-> SortAscending(SelectedIndices(selectedPages, ActiveDoc.id))]
    /\ loading' = TRUE
    /\ report' = "none"
    /\ saved' = NoSave
    /\ UNCHANGED <<documents, activeDocId, selectedPages, editorVars,
                   pending, generation, parseVars, codecRun>>

\* lines 500-504
DownloadDocument ==
    /\ CanClick
    /\ NothingSelected
    /\ MainView
    /\ HasActiveDoc
    /\ saved' = [kind |-> "pdf", content |-> ActiveDoc.arrayBuffer]
    /\ report' = "none"
    /\ UNCHANGED <<documents, activeDocId, loading, selectedPages,
                   editorVars, op, pending, generation, parseVars, codecRun>>

\* lines 507-520
DownloadAllAsZip ==
    /\ CanClick
    /\ NothingSelected
    /\ MainView
    /\ op' = [kind |-> "zipall", pc |-> "zip",
              out |-> [k \in 1..Len(documents) |-> documents[k].arrayBuffer]]
    /\ loading' = TRUE
    /\ report' = "none"
    /\ saved' = NoSave
    /\ UNCHANGED <<documents, activeDocId, selectedPages, editorVars,
                   pending, generation, parseVars, codecRun>>

-----------------------------------------------------------------------------
(* App.tsx: the page editor.                                               *)

\* lines 329-338: the page is opened at once, its preview rendered later
OpenPageEditor ==
    /\ CanClick
    /\ MainView
    /\ HasActiveDoc
    /\ NothingSelected
    /\ Cardinality(pending) < MaxPending
    /\ \E pageIndex \in 0..(Len(ActiveDoc.pages) - 1) :
          /\ activePageIndex' = pageIndex
          /\ currentAnnotations' = ActiveDoc.pages[pageIndex + 1].textAnnotations
          /\ pending' = pending \cup
                {[buf |-> ActiveDoc.arrayBuffer, pageIndex |-> pageIndex, pc |-> "render"]}
    /\ mode' = "view"
    /\ UNCHANGED <<documents, activeDocId, loading, selectedPages, cropBox,
                   pagePreview, pageSize, op, generation, parseVars, codecRun>>
    /\ report' = "none"
    /\ saved' = NoSave

\* lines 337-341: the preview of an openPageEditor call is rendered and stored
PreviewRenders ==
    /\ \E task \in pending :
          /\ task.pc = "render"
          /\ pagePreview' = RenderedImage(task.buf, task.pageIndex + 1, PreviewScale)
          /\ pending' = (pending \ {task}) \cup {[task EXCEPT !.pc = "size"]}
    /\ UNCHANGED <<documents, activeDocId, activePageIndex, mode, loading, selectedPages,
                   currentAnnotations, cropBox, pageSize, op, generation, parseVars, codecRun>>
    /\ report' = "none"
    /\ saved' = NoSave

\* lines 341-343: the size of the preview is read and stored
PreviewSized ==
    /\ \E task \in pending :
          /\ task.pc = "size"
          /\ pageSize' = Viewport(task.buf[task.pageIndex + 1], PreviewScale)
          /\ pending' = pending \ {task}
    /\ UNCHANGED <<documents, activeDocId, activePageIndex, mode, loading, selectedPages,
                   currentAnnotations, cropBox, pagePreview, op, generation, parseVars, codecRun>>
    /\ report' = "none"
    /\ saved' = NoSave

\* lines 344-346: the load or the render throws; only the console is told
PreviewFails ==
    /\ \E task \in pending : pending' = pending \ {task}
    /\ UNCHANGED <<documents, activeDocId, activePageIndex, mode, loading, selectedPages,
                   currentAnnotations, cropBox, pagePreview, pageSize, op,
                   generation, parseVars, codecRun>>
    /\ report' = "none"
    /\ saved' = NoSave

\* lines 350-356
ClosePageEditor ==
    /\ CanClick
    /\ EditorView
    /\ activePageIndex' = NoPage
    /\ mode' = "view"
    /\ currentAnnotations' = <<>>
    /\ pagePreview' = NoImage
    /\ cropBox' = NoBox
    /\ UNCHANGED <<documents, activeDocId, loading, selectedPages, pageSize,
                   op, pending, generation, parseVars, codecRun>>
    /\ report' = "none"
    /\ saved' = NoSave

\* lines 697, 706, 715
SetMode ==
    /\ CanClick
    /\ EditorView
    /\ \E m \in {"view", "text", "crop"} : m # mode /\ mode' = m
    /\ UNCHANGED <<documents, activeDocId, activePageIndex, loading, selectedPages,
                   currentAnnotations, cropBox, pagePreview, pageSize, op,
                   pending, generation, parseVars, codecRun>>
    /\ report' = "none"
    /\ saved' = NoSave

\* line 34: the font size of the text settings
FontSize == 16

\* the places of the canvas the user clicks
ClickPoints == {[x |-> 30, y |-> 15]}

\* the ids of the annotations pending or drawn so far
UsedAnnotationIds ==
    {currentAnnotations[k].id : k \in 1..Len(currentAnnotations)} \cup
    UNION {UNION {{documents[d].arrayBuffer[q].text[t].id :
                       t \in 1..Len(documents[d].arrayBuffer[q].text)} :
                   q \in 1..Len(documents[d].arrayBuffer)} :
           d \in 1..Len(documents)}

\* lines 359-380 (the id is a fresh one, as crypto.randomUUID gives)
HandleCanvasClick ==
    /\ CanClick
    /\ EditorView
    /\ mode = "text"
    /\ Len(currentAnnotations) < MaxAnnotations
    /\ \E point \in ClickPoints :
          currentAnnotations' = Append(currentAnnotations,
              [id |-> CHOOSE n \in 1..(Cardinality(UsedAnnotationIds) + 1) :
                          n \notin UsedAnnotationIds,
               x |-> point.x, y |-> point.y, fontSize |-> FontSize])
    /\ UNCHANGED <<documents, activeDocId, activePageIndex, mode, loading, selectedPages,
                   cropBox, pagePreview, pageSize, op, pending, generation, parseVars, codecRun>>
    /\ report' = "none"
    /\ saved' = NoSave

\* lines 555-557
DeleteAnnotation ==
    /\ CanClick
    /\ EditorView
    /\ mode = "text"
    /\ \E k \in 1..Len(currentAnnotations) :
          currentAnnotations' =
              SelectSeq(currentAnnotations, LAMBDA a : a.id # currentAnnotations[k].id)
    /\ UNCHANGED <<documents, activeDocId, activePageIndex, mode, loading, selectedPages,
                   cropBox, pagePreview, pageSize, op, pending, generation, parseVars, codecRun>>
    /\ report' = "none"
    /\ saved' = NoSave

\* the rectangle the user drags on the canvas: a part of the preview
CropBoxes ==
    { [set |-> TRUE, x |-> 15, y |-> 30, width |-> 30, height |-> 45] }

\* lines 383-412: mouse down, mouse move and mouse up on the canvas in crop mode
DragCropBox ==
    /\ CanClick
    /\ EditorView
    /\ mode = "crop"
    /\ \E box \in CropBoxes : box # cropBox /\ cropBox' = box
    /\ UNCHANGED <<documents, activeDocId, activePageIndex, mode, loading, selectedPages,
                   currentAnnotations, pagePreview, pageSize, op, pending, generation, parseVars, codecRun>>
    /\ report' = "none"
    /\ saved' = NoSave

\* line 832: setCropBox(null)
ClearCropBox ==
    /\ CanClick
    /\ EditorView
    /\ mode = "crop"
    /\ cropBox # NoBox
    /\ cropBox' = NoBox
    /\ UNCHANGED <<documents, activeDocId, activePageIndex, mode, loading, selectedPages,
                   currentAnnotations, pagePreview, pageSize, op, pending, generation, parseVars, codecRun>>
    /\ report' = "none"
    /\ saved' = NoSave

\* line 826: the apply button is disabled for a rectangle under 10 by 10
MinCropSide == 10

\* lines 415-428
ApplyCrop ==
    /\ CanClick
    /\ EditorView
    /\ mode = "crop"
    /\ cropBox # NoBox
    /\ cropBox.width >= MinCropSide
    /\ cropBox.height >= MinCropSide
    /\ generation < MaxGenerations
    /\ op' = [kind |-> "crop", pc |-> "codec", doc |-> ActiveDoc,
              pageIndex |-> activePageIndex, box |-> cropBox, size |-> pageSize,
              newBuffer |-> <<>>]
    /\ loading' = TRUE
    /\ report' = "none"
    /\ saved' = NoSave
    /\ UNCHANGED <<documents, activeDocId, selectedPages, editorVars,
                   pending, generation, parseVars, codecRun>>

\* lines 458-469
SaveAnnotations ==
    /\ CanClick
    /\ EditorView
    /\ mode = "text"
    /\ currentAnnotations # <<>>
    /\ generation < MaxGenerations
    /\ op' = [kind |-> "text", pc |-> "codec", doc |-> ActiveDoc,
              pageIndex |-> activePageIndex, annotations |-> currentAnnotations,
              newBuffer |-> <<>>]
    /\ loading' = TRUE
    /\ report' = "none"
    /\ saved' = NoSave
    /\ UNCHANGED <<documents, activeDocId, selectedPages, editorVars,
                   pending, generation, parseVars, codecRun>>

-----------------------------------------------------------------------------
(* App.tsx: the handlers after their awaits.                               *)

\* the alert of the catch block of each handler
FailureAlert(kind) ==
    CASE kind = "rotate" -> "rotate failed"
      [] kind = "delete" -> "delete failed"
      [] kind = "move" -> "move failed"
      [] kind = "crop" -> "crop failed"
      [] kind = "text" -> "save text failed"
      [] kind = "split" -> "split failed"
      [] kind = "merge" -> "merge failed"
      [] kind = "extract" -> "extract failed"
      [] kind = "zipall" -> "zip failed"

FailureAlerts ==
    {FailureAlert(kind) : kind \in MutationKinds \cup {"split", "merge", "extract", "zipall"}}
        \cup {"upload failed"}

\* the mutant of HandlerFails: a catch block without the finally block
HandlerFailsKeepsLoading ==
    /\ report' = FailureAlert(op.kind)
    /\ saved' = NoSave
    /\ loading' = loading
    /\ op' = Idle
    /\ UNCHANGED <<documents, activeDocId, selectedPages, editorVars,
                   pending, generation, parseVars, codecRun>>

\* the catch and finally blocks: the failure is alerted, the loading flag cleared
HandlerFails ==
    /\ report' = FailureAlert(op.kind)
    /\ saved' = NoSave
    /\ loading' = FALSE
    /\ op' = Idle
    /\ UNCHANGED <<documents, activeDocId, selectedPages, editorVars,
                   pending, generation, parseVars, codecRun>>

\* the codec call of a handler cannot succeed: copyPages is given an index that
\* names no page, or cropPage and addTextToPage a page index that names none
CodecMustThrow(o) ==
    CASE o.kind \in {"delete", "move", "extract"} -> ~CanCopy(o.doc.arrayBuffer, o.indices)
      [] o.kind \in {"crop", "text"} -> ~InRange(Num(o.pageIndex), o.doc.arrayBuffer)
      [] OTHER -> FALSE

\* the byte buffer the codec call of a mutation returns
NewBuffer(o) ==
    CASE o.kind = "rotate" -> rotatePages(o.doc.arrayBuffer, o.pageIndices, o.degrees)
      [] o.kind = "delete" -> extractPages(o.doc.arrayBuffer, o.indices)
      [] o.kind = "move" -> reorderPages(o.doc.arrayBuffer, o.indices)
      [] o.kind = "crop" -> cropPage(o.doc.arrayBuffer, o.pageIndex, o.box,
                                     o.size.width, o.size.height)
      [] o.kind = "text" -> addTextToPage(o.doc.arrayBuffer, o.pageIndex, o.annotations)

\* lines 139, 179, 209, 234, 267, 305, 422, 465: the codec call returns
CodecResolves ==
    /\ op.pc = "codec"
    /\ ~CodecMustThrow(op)
    /\ IF op.kind \in MutationKinds
       THEN /\ op' = [op EXCEPT !.pc = "thumbs", !.newBuffer = NewBuffer(op)]
            /\ saved' = NoSave
            /\ UNCHANGED loading
       ELSE IF op.kind = "split"
       THEN /\ op' = [op EXCEPT !.pc = "zip", !.out = splitPDF(op.doc.arrayBuffer, op.rules)]
            /\ saved' = NoSave
            /\ UNCHANGED loading
       ELSE /\ saved' = [kind |-> "pdf",
                         content |-> IF op.kind = "merge" THEN mergePDFs(op.buffers)
                                     ELSE extractPages(op.doc.arrayBuffer, op.indices)]
            /\ op' = Idle
            /\ loading' = FALSE
    /\ UNCHANGED <<documents, activeDocId, selectedPages, editorVars,
                   pending, generation, parseVars, codecRun>>
    /\ report' = "none"

\* the codec call throws
CodecRejects ==
    /\ op.pc = "codec"
    /\ HandlerFails

\* the mutant of InstallRotated: the rotation of the page model left alone
InstallRotatedNoModel(doc, o, thumbnails) ==
    [doc EXCEPT !.arrayBuffer = o.newBuffer,
                !.pages = [i \in 1..Len(doc.pages) |->
                    [doc.pages[i] EXCEPT !.thumbnail = ImageAt(thumbnails, i)]]]

\* lines 144-152
InstallRotated(doc, o, thumbnails) ==
    [doc EXCEPT !.arrayBuffer = o.newBuffer,
                !.pages = [i \in 1..Len(doc.pages) |->
                    [doc.pages[i] EXCEPT
                        !.thumbnail = ImageAt(thumbnails, i),
                        !.rotation = IF IndexListed(o.pageIndices, i - 1)
                                     THEN @ + o.degrees ELSE @]]]

\* the mutant of InstallDeleted: the page count of the document left alone
InstallDeletedStaleCount(doc, o, thumbnails) ==
    [doc EXCEPT !.arrayBuffer = o.newBuffer,
                !.pages = PagesWithThumbnails(Len(o.indices), thumbnails)]

\* lines 269-281
InstallDeleted(doc, o, thumbnails) ==
    [doc EXCEPT !.arrayBuffer = o.newBuffer,
                !.pageCount = Len(o.indices),
                !.pages = PagesWithThumbnails(Len(o.indices), thumbnails)]

\* the mutant of InstallMoved: the page records moved along with their pages,
\* each keeping the index it had
InstallMovedKeepsRecords(doc, o, thumbnails) ==
    [doc EXCEPT !.arrayBuffer = o.newBuffer,
                !.pages = [i \in 1..Len(o.indices) |->
                    [doc.pages[o.indices[i].v + 1] EXCEPT
                        !.thumbnail = ImageAt(thumbnails, i)]]]

\* lines 307-318
InstallMoved(doc, o, thumbnails) ==
    [doc EXCEPT !.arrayBuffer = o.newBuffer,
                !.pages = PagesWithThumbnails(o.doc.pageCount, thumbnails)]

\* the mutant of InstallCropped: the thumbnails of the buffer before are kept
InstallCroppedOldThumbnails(doc, o, thumbnails) ==
    [doc EXCEPT !.arrayBuffer = o.newBuffer]

\* lines 434-441
InstallCropped(doc, o, thumbnails) ==
    [doc EXCEPT !.arrayBuffer = o.newBuffer,
                !.pages = [i \in 1..Len(doc.pages) |->
                    [doc.pages[i] EXCEPT !.thumbnail = ImageAt(thumbnails, i)]]]

\* lines 475-483
InstallText(doc, o, thumbnails) ==
    [doc EXCEPT !.arrayBuffer = o.newBuffer,
                !.pages = [i \in 1..Len(doc.pages) |->
                    [doc.pages[i] EXCEPT
                        !.thumbnail = ImageAt(thumbnails, i),
                        !.textAnnotations = IF i - 1 = o.pageIndex THEN <<>> ELSE @]]]

\* the mutant of Installed: the update is written into every document
InstalledEverywhere(docs, o, thumbnails) ==
    [k \in 1..Len(docs) |->
        CASE o.kind = "rotate" -> InstallRotated(docs[k], o, thumbnails)
          [] o.kind = "delete" -> InstallDeleted(docs[k], o, thumbnails)
          [] o.kind = "move" -> InstallMoved(docs[k], o, thumbnails)
          [] o.kind = "crop" -> InstallCropped(docs[k], o, thumbnails)
          [] o.kind = "text" -> InstallText(docs[k], o, thumbnails)]

\* setDocuments(prev => prev.map(doc => doc.id !== activeDoc.id ? doc : {...}))
Installed(docs, o, thumbnails) ==
    [k \in 1..Len(docs) |->
        IF docs[k].id # o.doc.id THEN docs[k]
        ELSE CASE o.kind = "rotate" -> InstallRotated(docs[k], o, thumbnails)
               [] o.kind = "delete" -> InstallDeleted(docs[k], o, thumbnails)
               [] o.kind = "move" -> InstallMoved(docs[k], o, thumbnails)
               [] o.kind = "crop" -> InstallCropped(docs[k], o, thumbnails)
               [] o.kind = "text" -> InstallText(docs[k], o, thumbnails)]

\* lines 140-153, 268-284, 306-319, 430-442, 471-484: the thumbnails of the new
\* buffer are rendered and the document is replaced
ThumbnailsResolved ==
    /\ op.pc = "thumbs"
    /\ documents' = Installed(documents, op, Thumbnails(op.newBuffer))
    /\ generation' = generation + 1
    /\ IF op.kind \in {"crop", "text"}
       THEN /\ op' = [op EXCEPT !.pc = "preview"]
            /\ UNCHANGED <<loading, selectedPages>>
       ELSE /\ op' = Idle
            /\ loading' = FALSE
            /\ selectedPages' = IF op.kind = "delete" THEN {} ELSE selectedPages
    /\ UNCHANGED <<activeDocId, editorVars, pending, parseVars>>
    /\ report' = "none"
    /\ saved' = NoSave

ThumbnailsResolve ==
    /\ ThumbnailsResolved
    /\ UNCHANGED codecRun

\* generateThumbnails throws
ThumbnailsReject ==
    /\ op.pc = "thumbs"
    /\ HandlerFails

\* lines 444-448 and 486-490: the preview is rendered again from the new buffer
PreviewReloads ==
    /\ op.pc = "preview"
    /\ InRange(Num(op.pageIndex), op.newBuffer)
    /\ pagePreview' = RenderedImage(op.newBuffer, op.pageIndex + 1, PreviewScale)
    /\ IF op.kind = "crop"
       THEN cropBox' = NoBox /\ UNCHANGED currentAnnotations
       ELSE currentAnnotations' = <<>> /\ UNCHANGED cropBox
    /\ op' = Idle
    /\ loading' = FALSE
    /\ UNCHANGED <<documents, activeDocId, activePageIndex, mode, selectedPages,
                   pageSize, pending, generation, parseVars, codecRun>>
    /\ report' = "none"
    /\ saved' = NoSave

\* loadPDFDocument or renderPageToCanvas throws
PreviewReloadRejects ==
    /\ op.pc = "preview"
    /\ HandlerFails

\* lines 181-188 and 514-521: the archive is generated and handed over
ZipResolves ==
    /\ op.pc = "zip"
    /\ saved' = [kind |-> "zip", content |-> op.out]
    /\ op' = Idle
    /\ loading' = FALSE
    /\ UNCHANGED <<documents, activeDocId, selectedPages, editorVars,
                   pending, generation, parseVars, codecRun>>
    /\ report' = "none"

\* zip.generateAsync throws
ZipRejects ==
    /\ op.pc = "zip"
    /\ HandlerFails

Next ==
    \/ HandleFileUpload \/ UploadResolves \/ UploadRejects
    \/ TogglePageSelection \/ SelectAllPages \/ ClearSelection
    \/ SetActiveDocId \/ DeleteDocument
    \/ HandleRotate \/ HandleDeletePages \/ HandleMovePage
    \/ HandleSplit \/ HandleMergeAll \/ HandleExtract
    \/ DownloadDocument \/ DownloadAllAsZip
    \/ OpenPageEditor \/ PreviewRenders \/ PreviewSized \/ PreviewFails
    \/ ClosePageEditor \/ SetMode
    \/ HandleCanvasClick \/ DeleteAnnotation \/ DragCropBox \/ ClearCropBox
    \/ ApplyCrop \/ SaveAnnotations
    \/ CodecResolves \/ CodecRejects
    \/ ThumbnailsResolve \/ ThumbnailsReject
    \/ PreviewReloads \/ PreviewReloadRejects
    \/ ZipResolves \/ ZipRejects

Spec == Init /\ [][Next]_vars

\* the steps in which an awaited call of a handler returns or throws
Returns ==
    \/ UploadRejects \/ UploadResolves
    \/ CodecRejects \/ CodecResolves
    \/ ThumbnailsReject \/ ThumbnailsResolve
    \/ PreviewReloadRejects \/ PreviewReloads
    \/ ZipRejects \/ ZipResolves

\* every call that is awaited returns or throws in the end
SpecLive == Spec /\ WF_vars(Returns)

-----------------------------------------------------------------------------
(* The parser driven on its own: a rule text is written out from a list of *)
(* page numbers, or typed character by character, and then parsed.         *)

MaxNum == MaxPage + 1

\* a token as the user means it: the 1-based page a, or the 1-based range a-b
Tokens ==
    [range : {FALSE}, a : 0..MaxNum, b : {0}] \cup
    [range : {TRUE}, a : 0..MaxNum, b : 0..MaxNum]

TokenLists == UNION {[1..n -> Tokens] : n \in 0..MaxTokens}

FormatToken(t) ==
    IF t.range THEN ToDecimal(t.a) \o <<"-">> \o ToDecimal(t.b)
    ELSE ToDecimal(t.a)

\* the tokens joined by commas, each comma followed by a blank when pad is set
RECURSIVE FormatRules(_, _)
FormatRules(toks, pad) ==
    IF toks = <<>> THEN <<>>
    ELSE IF Len(toks) = 1 THEN FormatToken(toks[1])
    ELSE FormatToken(toks[1]) \o (IF pad THEN <<",", " ">> ELSE <<",">>)
             \o FormatRules(Tail(toks), pad)

\* the example of the specification: "1-2,3,4-9,10" with maxPage = 10
ExampleTokens ==
    << [range |-> TRUE, a |-> 1, b |-> 2], [range |-> FALSE, a |-> 3, b |-> 0],
       [range |-> TRUE, a |-> 4, b |-> 9], [range |-> FALSE, a |-> 10, b |-> 0] >>

\* maxPage = 10: the last page the example names
ExampleMaxPage == ExampleTokens[Len(ExampleTokens)].a

TypedChars == {"0", "1", "2", "-", ",", " ", "x"}

InitParse ==
    /\ AppInit
    /\ rules = <<>>
    /\ parsePc = "input"
    /\ codecRun = CodecIdle
    /\ \/ /\ typed = FALSE
          /\ \/ /\ tokens \in TokenLists
                /\ maxPage \in 0..MaxPage
             \/ /\ tokens = ExampleTokens
                /\ maxPage = ExampleMaxPage
          /\ \E pad \in BOOLEAN : input = FormatRules(tokens, pad)
       \/ /\ typed = TRUE
          /\ tokens = <<>>
          /\ input = <<>>
          /\ maxPage \in 0..MaxPage

\* one more character of the rule text (App.tsx: the rule input's onChange)
TypeChar ==
    /\ parsePc = "input"
    /\ typed
    /\ Len(input) < MaxLen
    /\ \E c \in TypedChars : input' = Append(input, c)
    /\ UNCHANGED <<maxPage, rules, parsePc, tokens, typed, appVars, codecRun>>

\* the call parseMergeRules(input, maxPage)
ParseRules ==
    /\ parsePc = "input"
    /\ rules' = parseMergeRules(input, maxPage)
    /\ parsePc' = "parsed"
    /\ UNCHANGED <<input, maxPage, tokens, typed, appVars, codecRun>>

NextParse == TypeChar \/ ParseRules

SpecParse == InitParse /\ [][NextParse]_vars

-----------------------------------------------------------------------------
(* handleSplit driven with a rule text typed character by character.       *)

\* one uploaded document, active, and an empty rule input
InitSplit ==
    /\ \E file \in {f \in Files : f.pdf}, id \in UuidPool :
          /\ documents = <<NewDocument(file, id)>>
          /\ activeDocId = id
    /\ activePageIndex = NoPage
    /\ mode = "view"
    /\ loading = FALSE
    /\ selectedPages = {}
    /\ currentAnnotations = <<>>
    /\ cropBox = NoBox
    /\ pagePreview = NoImage
    /\ pageSize = [width |-> Whole(0), height |-> Whole(0)]
    /\ op = Idle
    /\ pending = {}
    /\ report = "none"
    /\ saved = NoSave
    /\ generation = 0
    /\ input = <<>>
    /\ maxPage = 0
    /\ rules = <<>>
    /\ parsePc = "input"
    /\ tokens = <<>>
    /\ typed = TRUE
    /\ codecRun = CodecIdle

\* lines 973-978: one more character typed into the rule input
TypeRule ==
    /\ CanClick
    /\ MainView
    /\ TypeChar

\* line 982: the split button, the rule input holding the typed text
HandleSplitTyped ==
    /\ typed
    /\ HandleSplitOf(input)

NextSplit ==
    \/ TypeRule \/ HandleSplitTyped
    \/ CodecResolves \/ CodecRejects
    \/ ZipResolves \/ ZipRejects

SpecSplit == InitSplit /\ [][NextSplit]_vars

-----------------------------------------------------------------------------
(* handleMovePage driven with every pair of indices of one uploaded        *)
(* document; the orders of the moves that succeeded are kept on record.     *)

MaxMovePages == 3   \* pages of the longest document whose pages are moved

\* an uploaded file of n pages
MoveFile(n) == [name |-> "a", pdf |-> TRUE, pages |-> n]

\* one uploaded document, active, and no move made yet
InitMove ==
    /\ \E n \in 1..MaxMovePages, id \in UuidPool :
          /\ documents = <<NewDocument(MoveFile(n), id)>>
          /\ activeDocId = id
    /\ activePageIndex = NoPage
    /\ mode = "view"
    /\ loading = FALSE
    /\ selectedPages = {}
    /\ currentAnnotations = <<>>
    /\ cropBox = NoBox
    /\ pagePreview = NoImage
    /\ pageSize = [width |-> Whole(0), height |-> Whole(0)]
    /\ op = Idle
    /\ pending = {}
    /\ report = "none"
    /\ saved = NoSave
    /\ generation = 0
    /\ ParseIdle
    /\ codecRun = [pc |-> "moves", applied |-> <<>>]

\* handleMovePage(fromIndex, toIndex) with any two indices of the document
MovePage ==
    /\ HasActiveDoc
    /\ \E fromIndex, toIndex \in 0..(Len(ActiveDoc.pages) - 1) :
          HandleMovePageOf(fromIndex, toIndex)

\* lines 306-319: the moved document is installed; its order goes on record
MoveInstalls ==
    /\ op.kind = "move"
    /\ ThumbnailsResolved
    /\ codecRun' = [codecRun EXCEPT !.applied = Append(@, op.indices)]

NextMove ==
    \/ MovePage
    \/ CodecResolves \/ CodecRejects
    \/ MoveInstalls \/ ThumbnailsReject

SpecMove == InitMove /\ [][NextMove]_vars

-----------------------------------------------------------------------------
(* The move buttons reached from the keyboard. The loading overlay (lines   *)
(* 610-620) is a fixed layer above the page: it takes the pointer, but the  *)
(* buttons below it are neither disabled nor removed, and handleMovePage    *)
(* does not read the loading flag. A button that has the focus is activated *)
(* by Enter or Space, and Tab moves the focus, while the overlay is shown.  *)
(* codecRun.second holds a handler started that way; codecRun.done keeps,   *)
(* for every handler that installed a buffer, the document it had captured  *)
(* and the document it makes of it.                                         *)

\* one uploaded document, active, and no handler started yet
InitKeys ==
    /\ \E n \in 1..MaxMovePages, id \in UuidPool :
          /\ documents = <<NewDocument(MoveFile(n), id)>>
          /\ activeDocId = id
    /\ activePageIndex = NoPage
    /\ mode = "view"
    /\ loading = FALSE
    /\ selectedPages = {}
    /\ currentAnnotations = <<>>
    /\ cropBox = NoBox
    /\ pagePreview = NoImage
    /\ pageSize = [width |-> Whole(0), height |-> Whole(0)]
    /\ op = Idle
    /\ pending = {}
    /\ report = "none"
    /\ saved = NoSave
    /\ generation = 0
    /\ ParseIdle
    /\ codecRun = [pc |-> "keys", second |-> Idle, done |-> <<>>]

\* lines 1055-1082: a move button is clicked; the overlay is not shown and no
\* handler started by an earlier click is still running
ClickMovePage ==
    /\ op = Idle
    /\ HandleMovePage

\* lines 1055-1082, 294-305: a move button is activated from the keyboard
\* while the overlay is shown; handleMovePage runs with the document of the
\* current render (at most two handlers are followed at a time)
KeyPressMovePage ==
    /\ loading
    /\ codecRun.second = Idle
    /\ MainView
    /\ HasActiveDoc
    /\ generation < MaxGenerations
    /\ \E fromIndex \in 0..(Len(ActiveDoc.pages) - 1) :
          \E toIndex \in MoveTargets(fromIndex, Len(ActiveDoc.pages)) :
             codecRun' = [codecRun EXCEPT !.second =
                 [kind |-> "move", pc |-> "codec", doc |-> ActiveDoc,
                  indices |-> MovedOrder(Len(ActiveDoc.pages), fromIndex, toIndex),
                  newBuffer |-> <<>>]]
    /\ loading' = TRUE
    /\ report' = "none"
    /\ saved' = NoSave
    /\ UNCHANGED <<documents, activeDocId, selectedPages, editorVars,
                   op, pending, generation, parseVars>>

\* lines 938-950, 128-139: a rotate button is activated from the keyboard
\* while the overlay is shown; handleRotate runs with the document and the
\* selection of the current render
KeyPressRotate ==
    /\ loading
    /\ codecRun.second = Idle
    /\ MainView
    /\ HasActiveDoc
    /\ selectedPages # {}
    /\ generation < MaxGenerations
    /\ \E degrees \in RotateDegrees :
          codecRun' = [codecRun EXCEPT !.second =
              [kind |-> "rotate", pc |-> "codec", doc |-> ActiveDoc,
               pageIndices |-> SelectedIndices(selectedPages, ActiveDoc.id),
               degrees |-> degrees, newBuffer |-> <<>>]]
    /\ loading' = TRUE
    /\ report' = "none"
    /\ saved' = NoSave
    /\ UNCHANGED <<documents, activeDocId, selectedPages, editorVars,
                   op, pending, generation, parseVars>>

\* lines 140-153, 268-284, 306-319: the handler started by the click installs
\* its buffer; what it captured and what it makes of it go on record
FirstInstalls ==
    /\ ThumbnailsResolved
    /\ codecRun' = [codecRun EXCEPT !.done = Append(@,
           [doc |-> op.doc,
            result |-> Installed(<<op.doc>>, op, Thumbnails(op.newBuffer))[1]])]

\* lines 139, 305: rotatePages or reorderPages returns to the handler started
\* from the keyboard
SecondCodecResolves ==
    /\ codecRun.second.pc = "codec"
    /\ codecRun' = [codecRun EXCEPT !.second.pc = "thumbs",
                                    !.second.newBuffer = NewBuffer(codecRun.second)]
    /\ UNCHANGED appVars
    /\ UNCHANGED parseVars

\* lines 140-158, 306-324: the handler started from the keyboard installs its
\* buffer and clears the loading flag
SecondInstalls ==
    /\ codecRun.second.pc = "thumbs"
    /\ documents' = Installed(documents, codecRun.second,
                              Thumbnails(codecRun.second.newBuffer))
    /\ generation' = generation + 1
    /\ loading' = FALSE
    /\ codecRun' = [codecRun EXCEPT
           !.second = Idle,
           !.done = Append(@,
               [doc |-> codecRun.second.doc,
                result |-> Installed(<<codecRun.second.doc>>, codecRun.second,
                                     Thumbnails(codecRun.second.newBuffer))[1]])]
    /\ report' = "none"
    /\ saved' = NoSave
    /\ UNCHANGED <<activeDocId, selectedPages, editorVars, op, pending, parseVars>>

\* lines 154-158, 320-324: the codec call or generateThumbnails throws in the
\* handler started from the keyboard
SecondFails ==
    /\ codecRun.second.pc \in {"codec", "thumbs"}
    /\ report' = FailureAlert(codecRun.second.kind)
    /\ saved' = NoSave
    /\ loading' = FALSE
    /\ codecRun' = [codecRun EXCEPT !.second = Idle]
    /\ UNCHANGED <<documents, activeDocId, selectedPages, editorVars,
                   op, pending, generation, parseVars>>

NextKeys ==
    \/ TogglePageSelection
    \/ ClickMovePage
    \/ (op = Idle /\ HandleRotate)
    \/ (op = Idle /\ HandleDeletePages)
    \/ KeyPressMovePage \/ KeyPressRotate
    \/ CodecResolves \/ CodecRejects
    \/ FirstInstalls \/ ThumbnailsReject
    \/ SecondCodecResolves \/ SecondInstalls \/ SecondFails

SpecKeys == InitKeys /\ [][NextKeys]_vars

-----------------------------------------------------------------------------
(* The codec functions of pdfUtils.ts driven on their own: a function is    *)
(* called on the bytes of a file, some of whose pages are stored turned.    *)

MaxCodecPages == 3  \* pages of the longest buffer the functions are called on
MaxIndices == 3     \* longest index list passed to a function, the full one aside
MaxRanges == 2      \* longest list of ranges passed to splitPDF
MaxTimes == 3       \* most calls of a function made one after the other

\* the index lists passed to a function for a buffer of n pages: the short
\* lists of the indices of its pages, the two numbers next to them and NaN,
\* and every index in order
IndexLists(n) ==
    LET values == {Num(i) : i \in (0 - 1)..n} \cup {NaN}
    IN  UNION {[1..len -> values] : len \in 0..MaxIndices} \cup {IndexList(n)}

\* the lists of ranges parseMergeRules returns for a document of n pages
RangeLists(n) ==
    LET ranges == {r \in [start : 0..(n - 1), end : 0..(n - 1)] : r.start <= r.end}
    IN  UNION {[1..len -> ranges] : len \in 0..MaxRanges}

\* the lists of buffers handed to mergePDFs: the buffer at hand and the bytes
\* of a second file, of one page; one of them or two
BufferLists(buf) == UNION {[1..len -> {buf, FileBuffer("b", 1)}] : len \in 1..2}

\* the bytes of the files of n pages, each page stored with a rotation of 0
\* or 90 (as rotatePages leaves it)
TurnedBuffers(name, n) ==
    {[k \in 1..n |-> [FileBuffer(name, n)[k] EXCEPT !.rot = rots[k]]] :
        rots \in [1..n -> {0, 90}]}

InitCodec ==
    /\ AppInit
    /\ ParseIdle
    /\ \E n \in 1..MaxCodecPages :
          \E buf \in TurnedBuffers("a", n) :
             codecRun = [pc |-> "ready", buf |-> buf, fn |-> "none",
                         arg |-> <<>>, degrees |-> 0, out |-> <<>>]

\* the call fn(buf, arg) returned out
Returned(fn, arg, degrees, out) ==
    codecRun' = [codecRun EXCEPT !.pc = "returned", !.fn = fn, !.arg = arg,
                                 !.degrees = degrees, !.out = out]

\* the call fn(buf, arg) threw
Threw(fn, arg) ==
    codecRun' = [codecRun EXCEPT !.pc = "threw", !.fn = fn, !.arg = arg,
                                 !.degrees = 0, !.out = <<>>]

\* rotatePages(buf, pageIndices, degrees)
CallRotatePages ==
    /\ codecRun.pc = "ready"
    /\ \E pageIndices \in IndexLists(Len(codecRun.buf)), degrees \in RotateDegrees :
          Returned("rotatePages", pageIndices, degrees,
                   rotatePages(codecRun.buf, pageIndices, degrees))
    /\ UNCHANGED <<appVars, parseVars>>

\* extractPages(buf, pageIndices)
CallExtractPages ==
    /\ codecRun.pc = "ready"
    /\ \E pageIndices \in IndexLists(Len(codecRun.buf)) :
          IF CanCopy(codecRun.buf, pageIndices)
          THEN Returned("extractPages", pageIndices, 0,
                        extractPages(codecRun.buf, pageIndices))
          ELSE Threw("extractPages", pageIndices)
    /\ UNCHANGED <<appVars, parseVars>>

\* reorderPages(buf, newOrder)
CallReorderPages ==
    /\ codecRun.pc = "ready"
    /\ \E newOrder \in IndexLists(Len(codecRun.buf)) :
          IF CanCopy(codecRun.buf, newOrder)
          THEN Returned("reorderPages", newOrder, 0,
                        reorderPages(codecRun.buf, newOrder))
          ELSE Threw("reorderPages", newOrder)
    /\ UNCHANGED <<appVars, parseVars>>

\* splitPDF(buf, ranges)
CallSplitPDF ==
    /\ codecRun.pc = "ready"
    /\ \E ranges \in RangeLists(Len(codecRun.buf)) :
          Returned("splitPDF", ranges, 0, splitPDF(codecRun.buf, ranges))
    /\ UNCHANGED <<appVars, parseVars>>

\* mergePDFs(arrayBuffers) on a list of buffers
CallMergePDFs ==
    /\ codecRun.pc = "ready"
    /\ \E arrayBuffers \in BufferLists(codecRun.buf) :
          Returned("mergePDFs", arrayBuffers, 0, mergePDFs(arrayBuffers))
    /\ UNCHANGED <<appVars, parseVars>>

\* mergePDFs on the buffers splitPDF has just returned, in their order; the
\* ranges of the split stay on record
MergeSplitOutput ==
    /\ codecRun.pc = "returned"
    /\ codecRun.fn = "splitPDF"
    /\ codecRun.out # <<>>
    /\ codecRun' = [codecRun EXCEPT !.fn = "splitPDF, mergePDFs",
                                    !.out = mergePDFs(codecRun.out)]
    /\ UNCHANGED <<appVars, parseVars>>

\* the rectangles dragged on a preview of the given size (lines 383-412): a
\* corner on a coarse grid, the rectangle inside the preview, the whole
\* preview among them
PreviewBoxes(size) ==
    {box \in [set : {TRUE}, x : {0, 15}, y : {0, 30},
              width : {30, 45, 60, 90}, height : {30, 45, 60, 90}] :
        /\ FLeq(Whole(box.x + box.width), size.width)
        /\ FLeq(Whole(box.y + box.height), size.height)}

\* cropPage(buf, pageIndex, cropBox, pageWidth, pageHeight) with the size of the
\* preview of a page of the buffer (line 343) and a rectangle inside it
CallCropPage ==
    /\ codecRun.pc = "ready"
    /\ \E pageIndex \in 0..(Len(codecRun.buf) - 1), q \in 1..Len(codecRun.buf) :
          LET size == Viewport(codecRun.buf[q], PreviewScale)
          IN  \E box \in PreviewBoxes(size) :
                 Returned("cropPage",
                          [pageIndex |-> pageIndex, box |-> box, size |-> size], 0,
                          cropPage(codecRun.buf, pageIndex, box, size.width, size.height))
    /\ UNCHANGED <<appVars, parseVars>>

NextCodec ==
    \/ CallRotatePages \/ CallExtractPages \/ CallReorderPages
    \/ CallSplitPDF \/ CallMergePDFs \/ MergeSplitOutput
    \/ CallCropPage

SpecCodec == InitCodec /\ [][NextCodec]_vars

-----------------------------------------------------------------------------
(* The page editor opened and closed while previews are still rendering:   *)
(* openPageEditor does not set the loading flag, so the page grid and the   *)
(* editor's close button stay within reach of the pointer.                  *)

MaxRenders == 2     \* most preview renders in flight at once in these runs

\* one uploaded document of MaxPages pages, each stored upright or turned
InitPreview ==
    /\ \E arrayBuffer \in TurnedBuffers("a", MaxPages), id \in UuidPool :
          /\ documents = <<[id |-> id,
                            arrayBuffer |-> arrayBuffer,
                            pageCount |-> getPageCount(arrayBuffer),
                            pages |-> PagesWithThumbnails(getPageCount(arrayBuffer),
                                                          Thumbnails(arrayBuffer))]>>
          /\ activeDocId = id
    /\ activePageIndex = NoPage
    /\ mode = "view"
    /\ loading = FALSE
    /\ selectedPages = {}
    /\ currentAnnotations = <<>>
    /\ cropBox = NoBox
    /\ pagePreview = NoImage
    /\ pageSize = [width |-> Whole(0), height |-> Whole(0)]
    /\ op = Idle
    /\ pending = {}
    /\ report = "none"
    /\ saved = NoSave
    /\ generation = 0
    /\ ParseIdle
    /\ codecRun = [pc |-> "preview"]

\* lines 329-347, 1013: a page of the grid is clicked, whatever is still rendering
OpenPageEditorNow ==
    /\ ~loading
    /\ MainView
    /\ HasActiveDoc
    /\ Cardinality(pending) < MaxRenders
    /\ \E pageIndex \in 0..(Len(ActiveDoc.pages) - 1) :
          /\ activePageIndex' = pageIndex
          /\ currentAnnotations' = ActiveDoc.pages[pageIndex + 1].textAnnotations
          /\ pending' = pending \cup
                {[buf |-> ActiveDoc.arrayBuffer, pageIndex |-> pageIndex, pc |-> "render"]}
    /\ mode' = "view"
    /\ UNCHANGED <<documents, activeDocId, loading, selectedPages, cropBox,
                   pagePreview, pageSize, op, generation, parseVars, codecRun>>
    /\ report' = "none"
    /\ saved' = NoSave

\* lines 350-356, 684: the close button is clicked, whatever is still rendering
ClosePageEditorNow ==
    /\ ~loading
    /\ EditorView
    /\ activePageIndex' = NoPage
    /\ mode' = "view"
    /\ currentAnnotations' = <<>>
    /\ pagePreview' = NoImage
    /\ cropBox' = NoBox
    /\ UNCHANGED <<documents, activeDocId, loading, selectedPages, pageSize,
                   op, pending, generation, parseVars, codecRun>>
    /\ report' = "none"
    /\ saved' = NoSave

NextPreview ==
    \/ OpenPageEditorNow \/ ClosePageEditorNow
    \/ PreviewRenders \/ PreviewSized \/ PreviewFails

SpecPreview == InitPreview /\ [][NextPreview]_vars

-----------------------------------------------------------------------------
(* Claims about parseMergeRules.                                           *)

\* C7: every rule returned by parseMergeRules satisfies
\* 0 <= start <= end < maxPage, for every input text and every maxPage >= 0.
C7_RulesInRange ==
    parsePc = "parsed" =>
        \A k \in 1..Len(rules) :
            /\ 0 <= rules[k].start
            /\ rules[k].start <= rules[k].end
            /\ rules[k].end < maxPage

\* a parse that returned a proper range and a single page
C7_Witness ==
    /\ parsePc = "parsed"
    /\ \E k \in 1..Len(rules) : rules[k].start < rules[k].end
    /\ \E k \in 1..Len(rules) : rules[k].start = rules[k].end

\* what the claim expects of a list of well-formed tokens: in token order, one
\* rule (a-1, b-1) for every token with 1 <= a <= b <= max, nothing for the others
TokenInRange(t, max) ==
    IF t.range THEN 1 <= t.a /\ t.a <= t.b /\ t.b <= max
    ELSE 1 <= t.a /\ t.a <= max

ExpectedRule(t) ==
    IF t.range THEN [start |-> t.a - 1, end |-> t.b - 1]
    ELSE [start |-> t.a - 1, end |-> t.a - 1]

ExpectedRules(toks, max) ==
    LET valid == SelectSeq(toks, LAMBDA t : TokenInRange(t, max))
    IN  [k \in 1..Len(valid) |-> ExpectedRule(valid[k])]

\* C8: parseMergeRules emits, in the order of the comma-separated tokens, exactly
\* one rule per valid token, (a-1,a-1) for 'a' and (a-1,b-1) for 'a-b', never
\* merging overlapping ranges and keeping duplicates; the text "1-2,3,4-9,10"
\* with maxPage = 10 gives exactly [(0,1),(2,2),(3,8),(9,9)].
C8_RulesFollowTokens ==
    /\ (parsePc = "parsed" /\ ~typed) => rules = ExpectedRules(tokens, maxPage)
    /\ (parsePc = "parsed" /\ tokens = ExampleTokens /\ maxPage = ExampleMaxPage) =>
           rules = << [start |-> 0, end |-> 1], [start |-> 2, end |-> 2],
                      [start |-> 3, end |-> 8], [start |-> 9, end |-> 9] >>

\* a parse of two overlapping tokens in descending order, both kept as written
C8_Witness ==
    /\ parsePc = "parsed"
    /\ ~typed
    /\ Len(tokens) = 2
    /\ Len(rules) = 2
    /\ rules[1].start > rules[2].start
    /\ rules[2].end >= rules[1].start

\* a string that is an integer in decimal, blanks around it allowed
IsInteger(s) ==
    LET t == Trim(s)
    IN  t # <<>> /\ \A i \in 1..Len(t) : IsDigit(t[i])

\* the claim's reading of a token: 'a' or 'a-b' with integer sides, in range
ClaimedValid(tok, max) ==
    LET hyphens == {i \in 1..Len(tok) : tok[i] = "-"}
    IN  IF hyphens = {}
        THEN IsInteger(tok)
             /\ 1 <= DecimalValue(Trim(tok)) /\ DecimalValue(Trim(tok)) <= max
        ELSE /\ Cardinality(hyphens) = 1
             /\ LET h == CHOOSE i \in hyphens : TRUE
                    left == SubSeq(tok, 1, h - 1)
                    right == SubSeq(tok, h + 1, Len(tok))
                IN  /\ IsInteger(left)
                    /\ IsInteger(right)
                    /\ 1 <= DecimalValue(Trim(left))
                    /\ DecimalValue(Trim(left)) <= DecimalValue(Trim(right))
                    /\ DecimalValue(Trim(right)) <= max

\* C9: a trimmed non-empty token over digits, letters, spaces and hyphens yields a
\* rule if and only if it is an integer a with 1 <= a <= maxPage, or a range a-b
\* with integer sides and 1 <= a <= b <= maxPage; every other token yields none.
C9_TokenYieldsRuleIffWellFormed ==
    (parsePc = "parsed" /\ typed /\ input # <<>> /\ Trim(input) = input
        /\ ~Includes(input, ",")) =>
            ((rules # <<>>) <=> ClaimedValid(input, maxPage))

-----------------------------------------------------------------------------
(* Claims about the documents and the handlers that replace them.          *)

\* the document of a list with the given id (ids are unique in the list)
DocById(docs, id) == docs[CHOOSE k \in 1..Len(docs) : docs[k].id = id]

HasDoc(docs, id) == \E k \in 1..Len(docs) : docs[k].id = id

\* C1: in every reachable state every open document has pages.length equal to
\* pageCount, and both equal to the number of pages of its byte buffer, after
\* any sequence of upload, rotate, delete-pages, move-page, crop,
\* save-annotations and delete-document (one mutation in flight at a time).
C1_PagesMatchBuffer ==
    \A k \in 1..Len(documents) :
        /\ Len(documents[k].pages) = documents[k].pageCount
        /\ documents[k].pageCount = getPageCount(documents[k].arrayBuffer)

\* two buffers installed, and the longest file left with fewer pages than it had
C1_Witness ==
    /\ generation = MaxGenerations
    /\ \E k \in 1..Len(documents) :
          /\ documents[k].arrayBuffer[1].src[1] = "a"
          /\ documents[k].pageCount < MaxPages

\* C2: whenever a mutation handler (rotate, delete-pages, move-page, crop,
\* save-annotations) reports a failure, the byte buffer, pageCount and page
\* array of its document are what they were when the handler started, wherever
\* the codec or rasterizer call fails, the preview re-render of crop and
\* save-annotations included.
C2_FailureLeavesDocument ==
    [][(op.kind \in MutationKinds /\ report' = FailureAlert(op.kind)) =>
          (HasDoc(documents', op.doc.id) /\
           LET after == DocById(documents', op.doc.id)
           IN  /\ after.arrayBuffer = op.doc.arrayBuffer
               /\ after.pageCount = op.doc.pageCount
               /\ after.pages = op.doc.pages)]_vars

\* the page indices p of a document whose key (id, p) is in the selection
SelectedPagesOf(selection, docId) ==
    {p \in 0..(MaxPages - 1) : SelectionKey(docId, p) \in selection}

\* C3: the selection filter of rotate, extract and delete-pages returns, for the
\* active document, exactly the page indices p whose key (activeDocId, p) was
\* put in the selection, for every document id randomUUID generates.
C3_FilterReturnsSelectedIndices ==
    HasActiveDoc =>
        LET indices == SelectedIndices(selectedPages, activeDocId)
        IN  {indices[k] : k \in 1..Len(indices)} =
                {Num(p) : p \in SelectedPagesOf(selectedPages, activeDocId)}

\* C4: when handleRotate(d) succeeds with the set S of selected pages of the
\* active document, the rotation of the page model and the rotation stored in
\* the byte buffer are increased by d for exactly the pages of S and unchanged
\* for every other page, and pageCount is unchanged.
C4_RotatesExactlySelection ==
    [][(op.kind = "rotate" /\ op.pc = "thumbs" /\ op'.kind = "none"
            /\ report' = "none") =>
          LET S == SelectedPagesOf(selectedPages, op.doc.id)
              after == DocById(documents', op.doc.id)
              turn(i) == IF (i - 1) \in S THEN op.degrees ELSE 0
          IN  /\ after.pageCount = op.doc.pageCount
              /\ Len(after.pages) = Len(op.doc.pages)
              /\ Len(after.arrayBuffer) = Len(op.doc.arrayBuffer)
              /\ \A i \in 1..Len(op.doc.pages) :
                    /\ after.pages[i].rotation = op.doc.pages[i].rotation + turn(i)
                    /\ after.arrayBuffer[i].rot = op.doc.arrayBuffer[i].rot + turn(i)]_vars

\* the pages of a buffer whose indices are not in D, in their order
WithoutPages(buf, D) ==
    LET kept == SelectSeq([i \in 1..Len(buf) |-> i], LAMBDA i : (i - 1) \notin D)
    IN  [j \in 1..Len(kept) |-> buf[kept[j]]]

\* C5: deleting a non-empty proper subset D of the pages of the active document
\* yields a document of pageCount - |D| pages, which are the pages not in D in
\* their original relative order.
C5_DeleteRemovesSelection ==
    [][(op.kind = "delete" /\ op.pc = "thumbs" /\ op'.kind = "none"
            /\ report' = "none") =>
          LET D == SelectedPagesOf(selectedPages, op.doc.id)
              after == DocById(documents', op.doc.id)
          IN  (D # {} /\ Cardinality(D) < op.doc.pageCount) =>
                  /\ after.pageCount = op.doc.pageCount - Cardinality(D)
                  /\ Len(after.pages) = after.pageCount
                  /\ after.arrayBuffer = WithoutPages(op.doc.arrayBuffer, D)]_vars

\* the selection holds the key of every page of the active document
SelectionCoversActiveDoc ==
    /\ HasActiveDoc
    /\ \A p \in 0..(ActiveDoc.pageCount - 1) :
          SelectionKey(activeDocId, p) \in selectedPages

\* C6: a delete-pages request whose selection covers every page of the active
\* document is rejected before any codec call: the documents (byte buffer,
\* pageCount, page array), the selection and the loading flag are unchanged
\* and no handler is started; no document ever has zero pages.
C6_DeleteAllRejected ==
    /\ [](\A k \in 1..Len(documents) :
             documents[k].pageCount > 0 /\ Len(documents[k].arrayBuffer) > 0)
    /\ [][(HandleDeletePages /\ SelectionCoversActiveDoc) =>
             /\ UNCHANGED <<documents, selectedPages, loading, op>>
             /\ report' = "cannot delete all pages"]_vars

\* the request to delete both pages of the longest file has just been refused
C6_Witness ==
    /\ report = "cannot delete all pages"
    /\ SelectionCoversActiveDoc
    /\ ActiveDoc.pageCount = MaxPages
    /\ ~loading

\* C10: parseMergeRules returns (it never raises) at most one rule per
\* comma-separated token; when handleSplit is given non-blank rule text from
\* which no valid rule results, no split is started, nothing is exported, the
\* documents are unchanged, the loading flag ends false and what the user is
\* told is not a failure.
C10_NoValidRuleNothingDone ==
    [][HandleSplitTyped =>
          LET parsed == parseMergeRules(input, ActiveDoc.pageCount)
          IN  /\ Len(parsed) <= Len(Split(input, ","))
              /\ (Trim(input) # <<>> /\ parsed = <<>>) =>
                    /\ UNCHANGED <<documents, op>>
                    /\ loading' = FALSE
                    /\ saved' = NoSave
                    /\ report' \notin FailureAlerts]_vars

\* a text of two tokens, neither of them a page of the document, just refused
C10_Witness ==
    /\ report = "enter valid split rules"
    /\ Len(RuleParts(input)) = 2
    /\ ~loading
    /\ op = Idle

-----------------------------------------------------------------------------
(* Claims about handleMovePage.                                            *)

\* the numbers of an index list
IndexSet(order) == {order[k] : k \in 1..Len(order)}

\* an index list that holds every index of [0, n) exactly once
IsBijection(order, n) ==
    /\ Len(order) = n
    /\ IndexSet(order) = {Num(i) : i \in 0..(n - 1)}

\* the indices of [0, n) other than i, ascending
OthersAscending(n, i) == SelectSeq(IndexList(n), LAMBDA x : x.v # i)

\* order holds fromIndex at position toIndex and the other indices of [0, n)
\* around it in ascending order
IsMoveOf(order, n, fromIndex, toIndex) ==
    /\ IsBijection(order, n)
    /\ order[toIndex + 1] = Num(fromIndex)
    /\ SelectSeq(order, LAMBDA x : x.v # fromIndex) = OthersAscending(n, fromIndex)

\* C11: for every page count N and every fromIndex, toIndex in [0,N), the order
\* computed by move-page is a bijection on [0,N) in which the index fromIndex
\* sits at position toIndex and all other indices keep their relative order;
\* the resulting document has N pages in that order.
C11_MoveOrderAndDocument ==
    /\ [][HasActiveDoc =>
             \A fromIndex, toIndex \in 0..(ActiveDoc.pageCount - 1) :
                 HandleMovePageOf(fromIndex, toIndex) =>
                     IsMoveOf(op'.indices, ActiveDoc.pageCount, fromIndex, toIndex)]_vars
    /\ [][MoveInstalls =>
             LET before == op.doc
                 after == DocById(documents', op.doc.id)
                 N == before.pageCount
             IN  /\ after.pageCount = N
                 /\ Len(after.pages) = N
                 /\ Len(after.arrayBuffer) = N
                 /\ \A k \in 1..N :
                       after.arrayBuffer[k] = before.arrayBuffer[op.indices[k].v + 1]]_vars

\* the first page of a three-page document moved to the end, and installed
C11_Witness ==
    /\ codecRun.pc = "moves"
    /\ codecRun.applied = << <<Num(1), Num(2), Num(0)>> >>
    /\ op = Idle
    /\ [k \in 1..Len(documents[1].arrayBuffer) |-> documents[1].arrayBuffer[k].src[2]]
           = <<2, 3, 1>>

\* the order that results from applying the orders of a list one after the
\* other to the pages 0..n-1: position k of the next order names the position
\* of the order so far whose page goes to k
RECURSIVE ComposedOrder(_, _)
ComposedOrder(orders, n) ==
    IF orders = <<>> THEN IndexList(n)
    ELSE LET sofar == ComposedOrder(SubSeq(orders, 1, Len(orders) - 1), n)
             last == orders[Len(orders)]
         IN  [k \in 1..Len(last) |-> sofar[last[k].v + 1]]

\* C12: after any sequence of successful move-page operations on a document,
\* its page order (tracked by original page identity) equals the composition of
\* the individual move permutations in the order they were applied, and is
\* always a permutation of the original pages: no page is lost or duplicated.
C12_MovesCompose ==
    codecRun.pc = "moves" =>
        LET doc == documents[1]
            N == doc.pageCount
            composed == ComposedOrder(codecRun.applied, N)
            identity == [k \in 1..Len(doc.arrayBuffer) |-> Num(doc.arrayBuffer[k].src[2] - 1)]
        IN  /\ identity = composed
            /\ IsBijection(identity, N)
            /\ \A k \in 1..Len(doc.arrayBuffer) : doc.arrayBuffer[k].src[1] = "a"

\* two different moves applied to a three-page document, none undoing the other
C12_Witness ==
    /\ codecRun.pc = "moves"
    /\ Len(codecRun.applied) = 2
    /\ codecRun.applied[1] # codecRun.applied[2]
    /\ documents[1].pageCount = MaxMovePages
    /\ documents[1].arrayBuffer[1].src[2] # 1
    /\ op = Idle

-----------------------------------------------------------------------------
(* Claims about the codec functions.                                       *)

\* a call of fn has returned
HasReturned(fn) == codecRun.pc = "returned" /\ codecRun.fn = fn

\* reorderPages with the identity permutation, n times over
RECURSIVE IdentityReordered(_, _)
IdentityReordered(buf, n) ==
    IF n = 0 THEN buf
    ELSE LET once == IdentityReordered(buf, n - 1)
         IN  reorderPages(once, IndexList(Len(once)))

\* C13: for every document of N pages, reorderPages with the identity
\* permutation [0..N) returns a buffer with N pages in the same order as the
\* input, and applying it any number of times gives the same page sequence.
C13_IdentityReorder ==
    codecRun.pc \in {"ready", "returned"} =>
        /\ (HasReturned("reorderPages") /\ codecRun.arg = IndexList(Len(codecRun.buf))) =>
               /\ Len(codecRun.out) = Len(codecRun.buf)
               /\ \A k \in 1..Len(codecRun.buf) : codecRun.out[k] = codecRun.buf[k]
        /\ \A n \in 1..MaxTimes :
               IdentityReordered(codecRun.buf, n) = codecRun.buf

\* the identity reorder of a buffer of the most pages, one of them stored turned
C13_Witness ==
    /\ HasReturned("reorderPages")
    /\ Len(codecRun.buf) = MaxCodecPages
    /\ codecRun.arg = IndexList(MaxCodecPages)
    /\ codecRun.buf[1].rot = 0
    /\ codecRun.buf[2].rot = 90
    /\ codecRun.out[2].rot = 90

\* C14: splitPDF returns exactly one buffer per rule, in rule order; the buffer
\* for rule (start,end) contains exactly the source pages start..end inclusive
\* in ascending order (end - start + 1 pages); an empty rule list returns an
\* empty list; the source buffer is not changed.
C14_SplitOneBufferPerRule ==
    /\ [](HasReturned("splitPDF") =>
             LET ranges == codecRun.arg
                 results == codecRun.out
             IN  /\ Len(results) = Len(ranges)
                 /\ ranges = <<>> => results = <<>>
                 /\ \A r \in 1..Len(ranges) :
                       /\ Len(results[r]) = ranges[r].end - ranges[r].start + 1
                       /\ \A k \in 1..Len(results[r]) :
                             results[r][k] = codecRun.buf[ranges[r].start + k])
    /\ [][(codecRun.pc = "ready" /\ codecRun'.pc = "returned"
               /\ codecRun'.fn = "splitPDF") =>
             codecRun'.buf = codecRun.buf]_vars

\* a split of a three-page buffer by two overlapping ranges, the later pages first
C14_Witness ==
    /\ HasReturned("splitPDF")
    /\ codecRun.arg = << [start |-> 1, end |-> 2], [start |-> 0, end |-> 1] >>
    /\ Len(codecRun.out) = 2
    /\ codecRun.out[1][1].src = <<"a", 2>>
    /\ codecRun.out[2][2].src = <<"a", 2>>

\* the number of pages the ranges of a list name, a page counted once for
\* every range it is in
RECURSIVE PagesNamed(_)
PagesNamed(ranges) ==
    IF ranges = <<>> THEN 0
    ELSE (Head(ranges).end - Head(ranges).start + 1) + PagesNamed(Tail(ranges))

\* the merge of the buffers of a split has returned
MergedSplit == HasReturned("splitPDF, mergePDFs")

\* C15, as stated: for every source document and every rule list accepted by
\* splitPDF, merging the split outputs in their original order with mergePDFs
\* produces a document whose total page count equals the page count of the
\* source.
C15_RoundTripKeepsPageCount ==
    MergedSplit => getPageCount(codecRun.out) = getPageCount(codecRun.buf)

\* C15, amended: merging the split outputs of a non-empty rule list in their
\* order produces a document with one page for every page a rule names, the
\* sum of end - start + 1 over the rules; its page count equals that of the
\* source whenever that sum does, as for every rule list that covers each page
\* of the source exactly once.
C15_RoundTripCountsNamedPages ==
    MergedSplit =>
        /\ getPageCount(codecRun.out) = PagesNamed(codecRun.arg)
        /\ PagesNamed(codecRun.arg) = getPageCount(codecRun.buf) =>
               getPageCount(codecRun.out) = getPageCount(codecRun.buf)

\* the split of a three-page buffer into its first page and the two others, merged
C15_Witness ==
    /\ MergedSplit
    /\ codecRun.arg = << [start |-> 0, end |-> 0], [start |-> 1, end |-> 2] >>
    /\ getPageCount(codecRun.out) = 3
    /\ getPageCount(codecRun.buf) = 3

\* the number of pages of the first n buffers of a list
RECURSIVE PagesBefore(_, _)
PagesBefore(buffers, n) ==
    IF n = 0 THEN 0 ELSE PagesBefore(buffers, n - 1) + Len(buffers[n])

\* C16: mergePDFs returns a document whose page sequence is the concatenation
\* of the page sequences of the input buffers in input order, each input's
\* internal page order preserved; with a single input the output has the same
\* pages in the same order as that input.
C16_MergeConcatenates ==
    HasReturned("mergePDFs") =>
        LET arrayBuffers == codecRun.arg
            merged == codecRun.out
        IN  /\ Len(merged) = PagesBefore(arrayBuffers, Len(arrayBuffers))
            /\ \A b \in 1..Len(arrayBuffers) :
                  \A k \in 1..Len(arrayBuffers[b]) :
                      merged[PagesBefore(arrayBuffers, b - 1) + k] = arrayBuffers[b][k]
            /\ Len(arrayBuffers) = 1 => merged = arrayBuffers[1]

\* the one-page file merged in front of a buffer of more pages
C16_Witness ==
    /\ HasReturned("mergePDFs")
    /\ codecRun.arg = <<FileBuffer("b", 1), codecRun.buf>>
    /\ Len(codecRun.buf) = MaxCodecPages
    /\ codecRun.out[1].src[1] = "b"
    /\ codecRun.out[Len(codecRun.out)].src = <<"a", MaxCodecPages>>

\* C17: extractPages(indices) returns a document whose k-th page is source page
\* indices[k] for every k, in the caller's order (not sorted), with a repeated
\* index producing a repeated page; reorderPages(order) returns the same page
\* sequence as extractPages(order) for every order.
C17_ExtractInGivenOrder ==
    /\ HasReturned("extractPages") =>
           /\ codecRun.arg # <<>> => Len(codecRun.out) = Len(codecRun.arg)
           /\ \A k \in 1..Len(codecRun.arg) :
                 codecRun.out[k] = codecRun.buf[codecRun.arg[k].v + 1]
    /\ HasReturned("reorderPages") =>
           codecRun.out = extractPages(codecRun.buf, codecRun.arg)
    /\ HasReturned("extractPages") =>
           codecRun.out = reorderPages(codecRun.buf, codecRun.arg)

\* an extraction of the third page, the first and the third again
C17_Witness ==
    /\ HasReturned("extractPages")
    /\ codecRun.arg = <<Num(2), Num(0), Num(2)>>
    /\ codecRun.out[1].src = <<"a", 3>>
    /\ codecRun.out[2].src = <<"a", 1>>
    /\ codecRun.out[3].src = <<"a", 3>>

\* an index list that holds no number twice (an index set)
NoRepeats(indices) ==
    \A j, k \in 1..Len(indices) : indices[j] = indices[k] => j = k

\* rotatePages with the same arguments, n times over
RECURSIVE RotatedTimes(_, _, _, _)
RotatedTimes(buf, pageIndices, degrees, n) ==
    IF n = 0 THEN buf
    ELSE rotatePages(RotatedTimes(buf, pageIndices, degrees, n - 1), pageIndices, degrees)

C19_OneMutationInFlight ==
    codecRun.pc = "keys" => ~(op # Idle /\ codecRun.second # Idle)

\* C20: in every page array of every open document, the page record at
\* position i has pageIndex == i (no gaps, no duplicates), after any sequence
\* of upload, rotate, delete-pages, move-page, crop and save-annotations.
C20_PageIndexIsPosition ==
    \A d \in 1..Len(documents) :
        \A i \in 0..(Len(documents[d].pages) - 1) :
            documents[d].pages[i + 1].pageIndex = i

\* a document whose two pages have been exchanged by a move, and a page of it
\* turned afterwards
C20_Witness ==
    \E d \in 1..Len(documents) :
        /\ Len(documents[d].pages) = 2
        /\ documents[d].arrayBuffer[1].src[2] = 2
        /\ documents[d].arrayBuffer[2].src[2] = 1
        /\ documents[d].arrayBuffer[1].rot # 0
        /\ documents[d].pages[1].pageIndex = 0
        /\ documents[d].pages[2].pageIndex = 1

\* C21: after every successful mutation (rotate, delete-pages, move-page,
\* crop, save-annotations) and after upload, every page i of the affected
\* document has a thumbnail, and it is the thumbnail rendered from page i of
\* the newly installed byte buffer (one thumbnail per page, none left over
\* from the previous buffer).
C21_ThumbnailsOfInstalledBuffer ==
    \A d \in 1..Len(documents) :
        LET doc == documents[d]
            thumbnails == generateThumbnails(doc.arrayBuffer, ThumbnailScale)
        IN  /\ Len(thumbnails) = Len(doc.pages)
            /\ \A i \in 1..Len(doc.pages) :
                  /\ doc.pages[i].thumbnail.set
                  /\ doc.pages[i].thumbnail.of = thumbnails[i].of
                  /\ doc.pages[i].thumbnail.scale = thumbnails[i].scale

\* a document with a cropped page, whose thumbnail shows the crop, and with
\* a second page
C21_Witness ==
    \E d \in 1..Len(documents) :
        /\ Len(documents[d].pages) = 2
        /\ \E i \in 1..2 :
              /\ documents[d].arrayBuffer[i].crop.set
              /\ documents[d].pages[i].thumbnail.set
              /\ documents[d].pages[i].thumbnail.of.crop.set

\* the ids of the annotations drawn on page q of a buffer, one for each drawText
DrawnIds(buf, q) == [t \in 1..Len(buf[q].text) |-> buf[q].text[t].id]

\* C22: a pending text annotation stops being pending as soon as it has been
\* burned into the document's byte buffer, and a crop rectangle is cleared as
\* soon as it has been applied: over any sequence of save-annotations and
\* apply-crop calls (including calls that end in an error report), no
\* annotation is drawn into the installed buffer more than once and no crop
\* rectangle is applied twice.
C22_BurnedOnce ==
    \A d \in 1..Len(documents) :
        \A q \in 1..Len(documents[d].arrayBuffer) :
            LET drawn == DrawnIds(documents[d].arrayBuffer, q)
            IN  /\ \A t, u \in 1..Len(drawn) : drawn[t] = drawn[u] => t = u
                /\ op = Idle =>
                       \A k \in 1..Len(currentAnnotations) :
                           \A t \in 1..Len(drawn) : drawn[t] # currentAnnotations[k].id

\* the length of the page array a handler at its install step puts in place:
\* rotate maps over the pages the document has by then, delete-pages and
\* move-page make a new array
PagesBeingInstalled(o) ==
    CASE o.kind = "rotate" ->
             Len(documents[CHOOSE k \in 1..Len(documents) :
                               documents[k].id = o.doc.id].pages)
      [] o.kind = "delete" -> Len(o.indices)
      [] o.kind = "move" -> o.doc.pageCount

\* the rasterizer reports another number of pages for the new buffer
ThumbnailsMismatch(o) ==
    Len(generateThumbnails(o.newBuffer, ThumbnailScale)) # PagesBeingInstalled(o)

\* C23: if, after a mutation, the number of pages reported by the rasterizer
\* for the new buffer (the number of thumbnails) differs from the length of
\* the page array being installed, the operation halts with an error and the
\* mismatching buffer/page-array pair is not installed.
C23_MismatchHalts ==
    [][/\ (op.pc = "thumbs" /\ op'.pc # "thumbs" /\ ThumbnailsMismatch(op)) =>
              (documents' = documents /\ report' \in FailureAlerts)
       /\ (codecRun.second.pc = "thumbs" /\ codecRun'.second.pc # "thumbs"
               /\ ThumbnailsMismatch(codecRun.second)) =>
              (documents' = documents /\ report' \in FailureAlerts)]_vars

\* C24: every codec or rasterizer failure raised inside any operation (upload,
\* rotate, split, merge, extract, delete-pages, move-page, open page preview,
\* crop, save-annotations, zip download) is reported to the user as a failure
\* of that operation, and no operation retries the failed call by itself.
C24_FailuresReported ==
    [][/\ (UploadRejects \/ CodecRejects \/ ThumbnailsReject
               \/ PreviewReloadRejects \/ ZipRejects) =>
              (report' \in FailureAlerts /\ op' = Idle)
       /\ PreviewFails =>
              (report' \in FailureAlerts /\ Cardinality(pending') < Cardinality(pending))]_vars

\* the documents of a list made of the bytes of a file
DocsOfFile(docs, file) ==
    {k \in 1..Len(docs) : docs[k].arrayBuffer = FileBuffer(file.name, file.pages)}

\* C25: on upload, every file of PDF type whose bytes load successfully
\* becomes one new Document (with pageCount, page array and thumbnails all of
\* the length reported for its bytes), every file of another type adds no
\* document, and a document leaves the document list only through explicit
\* removal (deleteDocument).
C25_UploadMakesDocuments ==
    [][/\ UploadResolves =>
              /\ Len(documents') = Len(documents) + Len(PdfFiles(op.files))
              /\ \A f \in 1..Len(op.files) :
                    LET made == DocsOfFile(documents', op.files[f])
                    IN  IF op.files[f].pdf
                        THEN /\ Cardinality(made) = 1
                             /\ \A k \in made :
                                   /\ k > Len(documents)
                                   /\ documents'[k].pageCount = op.files[f].pages
                                   /\ Len(documents'[k].pages) = op.files[f].pages
                                   /\ \A i \in 1..op.files[f].pages :
                                         documents'[k].pages[i].thumbnail.set
                        ELSE made = {}
       /\ (op.kind = "upload" /\ op' = Idle) =>
              \A k \in 1..Len(PdfFiles(op.files)) :
                  UploadRejectsAt(k) =>
                      \A j \in 1..(k - 1) :
                          Cardinality(DocsOfFile(documents', PdfFiles(op.files)[j])) = 1
       /\ (\E k \in 1..Len(documents) :
               \A j \in 1..Len(documents') : documents'[j].id # documents[k].id) =>
              DeleteDocument]_vars

\* C26: cropPage maps a preview-space rectangle (x,y,w,h) to the PDF rectangle
\* (x*sx, pageH - (y+h)*sy, w*sx, h*sy) with sx = pageW/previewW and
\* sy = pageH/previewH; in particular the full preview rectangle
\* (0,0,previewW,previewH) maps to exactly (0,0,pageW,pageH), and the mapped
\* rectangle of any rectangle inside the preview lies inside the page box.
C26_CropMapsPreviewToPage ==
    HasReturned("cropPage") =>
        LET box == codecRun.arg.box
            previewW == codecRun.arg.size.width
            previewH == codecRun.arg.size.height
            q == codecRun.arg.pageIndex + 1
            pageW == GetSize(codecRun.buf[q]).width
            pageH == GetSize(codecRun.buf[q]).height
            rect == codecRun.out[q].crop
        IN  /\ rect.set
            /\ FMul(rect.x, previewW) = FMul(Whole(box.x), pageW)
            /\ FMul(rect.w, previewW) = FMul(Whole(box.width), pageW)
            /\ FMul(rect.h, previewH) = FMul(Whole(box.height), pageH)
            /\ FMul(FSub(pageH, rect.y), previewH) =
                   FMul(Whole(box.y + box.height), pageH)
            /\ (box.x = 0 /\ box.y = 0 /\ Whole(box.width) = previewW
                    /\ Whole(box.height) = previewH) =>
                   (rect.x = Whole(0) /\ rect.y = Whole(0)
                       /\ rect.w = pageW /\ rect.h = pageH)
            /\ FLeq(Whole(0), rect.x)
            /\ FLeq(Whole(0), rect.y)
            /\ FLeq(FAdd(rect.x, rect.w), pageW)
            /\ FLeq(FAdd(rect.y, rect.h), pageH)
            /\ \A k \in 1..Len(codecRun.buf) :
                   k # q => codecRun.out[k] = codecRun.buf[k]

\* the crop of the lower right part of the preview of an upright page: the
\* rectangle lands at the bottom of the page box, its right part
C26_Witness ==
    /\ HasReturned("cropPage")
    /\ codecRun.arg.size = [width |-> Whole(60), height |-> Whole(90)]
    /\ codecRun.arg.box = [set |-> TRUE, x |-> 15, y |-> 30, width |-> 45, height |-> 60]
    /\ codecRun.out[codecRun.arg.pageIndex + 1].crop =
           [set |-> TRUE, x |-> Whole(10), y |-> Whole(0), w |-> Whole(30), h |-> Whole(40)]

\* C27: when a text annotation placed at preview position (x,y) on a preview
\* rendered at scale s is burned in, its draw position is converted from
\* preview space to PDF space with both the vertical flip and the scale factor
\* between preview size and PDF page size, so that the text lands at the point
\* of the page the user clicked (x/s from the left edge, y/s from the top
\* edge, less the baseline offset).
C27_TextLandsWhereClicked ==
    [][(op.kind = "text" /\ op.pc = "codec" /\ op'.pc = "thumbs") =>
          LET q == op.pageIndex + 1
              before == op.doc.arrayBuffer[q]
              after == op'.newBuffer[q]
              pageH == GetSize(before).height.n
          IN  /\ Len(after.text) = Len(before.text) + Len(op.annotations)
              /\ \A k \in 1..Len(op.annotations) :
                    LET annotation == op.annotations[k]
                        drawn == after.text[Len(before.text) + k]
                    IN  \* x = annotation.x / s, with s = PreviewScale / 10
                        /\ drawn.x * PreviewScale = annotation.x * 10
                        \* pageH - (y + size) = annotation.y / s
                        /\ (pageH - (drawn.y + drawn.size)) * PreviewScale =
                               annotation.y * 10]_vars

\* C28: if two mutation handlers started from the same document generation
\* both run to completion (in either completion order), the document finally
\* installed is the complete result of exactly one of them: its byte buffer,
\* pageCount and page array all come from the same operation, never the
\* buffer of one with the pageCount or page array of the other.
C28_OneHandlerWins ==
    (codecRun.pc = "keys" /\ op = Idle /\ codecRun.second = Idle
         /\ Len(codecRun.done) >= 2) =>
        LET n == Len(codecRun.done)
            one == codecRun.done[n - 1]
            other == codecRun.done[n]
        IN  one.doc = other.doc =>
                \A k \in 1..Len(documents) :
                    documents[k].id = one.doc.id =>
                        \/ /\ documents[k].arrayBuffer = one.result.arrayBuffer
                           /\ documents[k].pageCount = one.result.pageCount
                           /\ documents[k].pages = one.result.pages
                        \/ /\ documents[k].arrayBuffer = other.result.arrayBuffer
                           /\ documents[k].pageCount = other.result.pageCount
                           /\ documents[k].pages = other.result.pages

\* C29: every handler that sets the loading flag eventually clears it, on
\* every path (success, early rejection such as an empty split rule list, or
\* a codec/rasterizer failure), provided each codec and rasterizer call
\* eventually returns or throws; once started, a mutation is never cancelled
\* midway.
C29_LoadingIsCleared ==
    /\ loading ~> ~loading
    /\ [][report' = "enter valid split rules" => ~loading']_vars
    /\ [][(op # Idle /\ op' # op) => Returns]_vars
    /\ [][(loading /\ ~loading') => op' = Idle]_vars

\* a handler has failed and the loading flag is cleared
C29_Witness == ~loading /\ op = Idle /\ report \in FailureAlerts

\* C30: whenever applyCrop or saveAnnotations calls the engine (cropPage,
\* addTextToPage), the page index passed satisfies 0 <= activePageIndex <
\* pageCount of the active document's current buffer, after any sequence of
\* open/close page editor, upload, delete-pages, move-page and delete-document.
C30_PageIndexInRange ==
    (op.kind \in {"crop", "text"} /\ op.pc = "codec") =>
        /\ HasActiveDoc
        /\ op.doc = ActiveDoc
        /\ op.pageIndex = activePageIndex
        /\ 0 <= op.pageIndex
        /\ op.pageIndex < Len(ActiveDoc.arrayBuffer)
        /\ op.pageIndex < ActiveDoc.pageCount
        /\ ~CodecMustThrow(op)

\* the engine is called for the second page of a document whose buffer a
\* handler has replaced before
C30_Witness ==
    /\ op.kind \in {"crop", "text"}
    /\ op.pc = "codec"
    /\ op.pageIndex = 1
    /\ generation >= 1

\* C31: for every page of every open document, the rotation value in the
\* page model equals the total degrees that rotate operations have added to
\* that page's stored rotation in the byte buffer since upload (uploaded pages
\* are stored upright); this stays true when rotations are followed by
\* move-page, delete-pages, crop or save-annotations.
C31_RotationIsDelta ==
    \A d \in 1..Len(documents) :
        \A k \in 1..Len(documents[d].pages) :
            k <= Len(documents[d].arrayBuffer) =>
                documents[d].pages[k].rotation = documents[d].arrayBuffer[k].rot

\* C32: every key in the selection set always refers to an open document and
\* to a page index smaller than that document's current pageCount, after any
\* sequence of toggle, select-all, clear, delete-pages, move-page, upload and
\* delete-document.
C32_SelectionRefersToPages ==
    \A key \in selectedPages :
        \E d \in 1..Len(documents) :
            \E i \in 0..(documents[d].pageCount - 1) :
                key = SelectionKey(documents[d].id, i)

\* a page is selected in a document from which a page was deleted before
C32_Witness ==
    /\ selectedPages # {}
    /\ generation >= 1
    /\ \E d \in 1..Len(documents) :
          /\ documents[d].arrayBuffer[1].src[1] = "a"
          /\ documents[d].pageCount < MaxPages
          /\ SelectionKey(documents[d].id, 0) \in selectedPages

\* C33: handleDeletePages invoked while the selection set is non-empty but
\* contains no page of the active document changes nothing: the active
\* document's byte buffer, pageCount and page records (including per-page
\* rotation) and the selection set (the other documents' selected pages) are
\* all unchanged.
C33_ForeignSelectionDeletesNothing ==
    [][(/\ op.kind = "delete"
        /\ selectedPages # {}
        /\ \A key \in selectedPages : ~StartsWith(key, op.doc.id)
        /\ op'.kind = "none") =>
           (documents' = documents /\ selectedPages' = selectedPages)]_vars

C35_PreviewOfOpenPage ==
    /\ (EditorView /\ pagePreview # NoImage) =>
           /\ pagePreview = RenderedImage(ActiveDoc.arrayBuffer, activePageIndex + 1,
                                          PreviewScale)
           /\ pageSize = Viewport(ActiveDoc.arrayBuffer[activePageIndex + 1], PreviewScale)
    /\ activePageIndex = NoPage => pagePreview = NoImage

\* C36: activeDocId is always either null or the id of a currently open
\* document, and it is non-null whenever at least one document is open, after
\* any sequence of uploads, document switches and document removals.
C36_ActiveDocIsOpen ==
    /\ activeDocId = NoDoc \/ HasActiveDoc
    /\ documents # <<>> => activeDocId # NoDoc

\* every document has been removed after a handler had replaced the buffer of
\* one of them
C36_Witness ==
    /\ documents = <<>>
    /\ activeDocId = NoDoc
    /\ generation >= 1

=============================================================================
